---- MODULE Spec2Model ----
(***************************************************************************)
(* PAI-App: the retry/backoff decorator (pai.resilience.resilient_provider)*)
(* under a chat session (pai.core.chat_session) that persists its turns in *)
(* a transcript (pai.storage.transcript) and trims what it sends with a    *)
(* context window manager (pai.core.context).                              *)
(*                                                                         *)
(* Spec drives one turn through every retry path; SpecTurns drives several *)
(* turns; SpecCtx calls ContextWindowManager.apply alone; SpecTranscript   *)
(* constructs, appends to and resumes a Transcript over the text of its    *)
(* log file; SpecPolicy evaluates a ParamPolicy (pai.providers.param_policy)*)
(* inside build_app (pai.bootstrap); SpecWeb runs concurrent requests on   *)
(* the session registry of the web application (pai.web.app); SpecLive is  *)
(* Spec with every pending inner call, sleep and read of the stream        *)
(* eventually returning; SpecGens is one caller of a ChatSession that      *)
(* starts turns while generators of earlier streaming turns are open.      *)
(*                                                                         *)
(* Time is counted in ticks of the monotonic clock.  An inner provider call*)
(* is an environment step: it returns, yields, raises or is interrupted.   *)
(* An inner call and the wait for the first chunk of a stream take a number*)
(* of ticks in CallTicks; later chunks arrive within the tick.             *)
(***************************************************************************)
EXTENDS Integers, Sequences, FiniteSets, TLC

\* ---------------------------------------------------------------- bounds
MaxRetriesBound == 2    \* largest ResiliencePolicy.max_retries explored
MaxChunks       == 2    \* most chunks one inner stream produces
MaxTurns        == 2    \* turns run in one session driven for several turns

\* One tick is 0.25 s: random.uniform(0, 0.25) is at most one tick.
JitterTicks  == 1
\* how long an inner call, or the wait for the first chunk, can take
CallTicks    == {0, 1}
\* (base_delay, max_delay, total_timeout) of the policies explored, in ticks
DelayBudgets == {[base_delay |-> 0, max_delay |-> 2, total_timeout |-> 1],
                 [base_delay |-> 1, max_delay |-> 2, total_timeout |-> 3]}
Pieces        == {"a", "b"}
Replies       == {"ok"}
UserTexts     == {"hi"}
SystemPrompt  == "sys"

Min(a, b) == IF a <= b THEN a ELSE b
Max(a, b) == IF a >= b THEN a ELSE b

RECURSIVE Pow2(_)
Pow2(n) == IF n <= 0 THEN 1 ELSE 2 * Pow2(n - 1)

\* ------------------------------------------------------------ exceptions
\* An exception raised by the inner provider: its class, the status_code
\* attribute (0: no such attribute), and the Retry-After header of its
\* .response ("" : no response or no such header).
NoExc == [cls |-> "none", status_code |-> 0, retry_after |-> ""]

KeyboardInterrupt == [cls |-> "KeyboardInterrupt", status_code |-> 0, retry_after |-> ""]

APITimeoutError == [cls |-> "APITimeoutError", status_code |-> 0, retry_after |-> ""]

\* Python class hierarchy: the classes an instance of cls is an instance of.
Ancestors(cls) ==
    CASE cls = "TimeoutError"           -> {"TimeoutError", "OSError", "Exception"}
      [] cls = "ProviderTransientError" -> {"ProviderTransientError", "ProviderError", "Exception"}
      [] cls = "ProviderClientError"    -> {"ProviderClientError", "ProviderError", "Exception"}
      [] cls = "SDKError"               -> {"SDKError", "Exception"}
      [] cls = "APITimeoutError"        -> {"APITimeoutError", "APIConnectionError", "APIError", "Exception"}
      [] cls = "KeyboardInterrupt"      -> {"KeyboardInterrupt", "BaseException"}
      [] OTHER                          -> {cls}

\* The failures the inner provider raises in this model.
InnerExcs ==
    { [cls |-> "TimeoutError",           status_code |-> 0,   retry_after |-> ""],
      [cls |-> "ProviderTransientError", status_code |-> 0,   retry_after |-> ""],
      [cls |-> "ProviderClientError",    status_code |-> 0,   retry_after |-> ""],
      [cls |-> "SDKError",               status_code |-> 503, retry_after |-> ""],
      [cls |-> "SDKError",               status_code |-> 429, retry_after |-> "3"],
      [cls |-> "SDKError",               status_code |-> 503, retry_after |-> "-1"],
      [cls |-> "SDKError",               status_code |-> 429, retry_after |-> "soon"],
      [cls |-> "SDKError",               status_code |-> 404, retry_after |-> ""] }

\* the SDK's error classes, imported at module load (the SDK is installed:
\* the adapter imports it unconditionally)
OPENAI_ERRORS == {"APIError", "APIConnectionError", "RateLimitError", "APITimeoutError"}

\* ResiliencePolicy defaults that the model keeps fixed.
retry_status_codes == {429, 500, 502, 503, 504}
retry_exceptions   == {"TimeoutError"}

Policies ==
    { [max_retries |-> n, base_delay |-> b.base_delay,
       max_delay |-> b.max_delay, total_timeout |-> b.total_timeout] :
         n \in 0..MaxRetriesBound, b \in DelayBudgets }

VARIABLES
    policy,        \* ResilientProvider.policy
    root_dir,      \* Transcript._root_dir is set (file-backed)
    t_file,        \* records written to <root_dir>/<session_id>.jsonl
    t_records,     \* Transcript._records (in-memory mode)
    t_messages,    \* Transcript._messages
    pc,            \* where the turn in flight stands
    mode,          \* "chat" | "stream": which entry point the turn uses
    outgoing,      \* the messages handed to the provider
    now,           \* time.monotonic()
    start,         \* local start of chat / gen
    attempt,       \* local attempt of chat / gen
    yielded_any,   \* local yielded_any of gen
    partial,       \* local partial of run_turn_stream
    innerChunks,   \* number of chunks the running inner stream has produced
    produced,      \* the chunks the running inner stream has produced
    outcome,       \* how the provider call of this turn ended
    cause,         \* __cause__ of the terminal RuntimeError
    result,        \* value returned by ResilientProvider.chat
    innerReturned, \* value the inner chat returned
    delivered,     \* chunks the consumer received this turn
    calls,         \* inner invocations of this logical call
    sleeps,        \* calls of time.sleep in this logical call
    lastSleep,     \* the delay passed to time.sleep last
    attemptAt,     \* elapsed time at which the last attempt was started
    fails,         \* exceptions caught by the handler in this logical call
    lastExc,       \* exc of the handler: the exception caught last
    lastElapsed,   \* elapsed of the handler, computed when it was caught
    allRetryable,  \* every exception caught so far was a retryable one
    lastRaised,    \* what the inner provider or time.sleep raised last
    assistantAppends, \* assistant messages appended in this turn
    finalRuns,     \* times the finally block of run_turn_stream.gen ran
    turns,         \* turns started
    submitted,     \* the user texts submitted so far, in turn order
    prevOk,        \* every turn before the current one ended without an error
    prevReplied,   \* ... and appended an assistant message
    turnLimit,     \* turns the session is driven for
    context,       \* ContextPolicy of ChatSession.ctx_mgr, or NoContext
    use_enc,       \* TokenCounter._enc is set (tiktoken could be imported)
    ctx_in,        \* argument of a direct call of ContextWindowManager.apply
    ctx_out,       \* what that call returned
    ctx_again,     \* what apply returned when called on that result
    ctx_pc,        \* "idle" | "ready" | "done" | "again": progress of the direct calls
    disk,          \* text of <root_dir>/<session_id>.jsonl, line by line
    tr_pc,         \* "session" | "none" | "open" | "raised": the Transcript object
    system_prompt, \* Transcript._system_prompt
    expected,      \* system message and appended messages of a log made here
    log_origin,    \* "none" | "fresh" | "found": who made the log file
    appended,      \* calls of append_message on this log
    opened,        \* Transcript objects constructed on this log
    view,          \* what the last read of Transcript.messages returned
    pp_rules,      \* ParamPolicy.rules
    pp_model,      \* model name handed to evaluate
    pp_raw,        \* raw_params handed to evaluate
    pp_exists,     \* the policy file of the provider exists
    pp_pc,         \* "idle" | "ready" | "returned" | "raised" | "built" | "aborted"
    pp_result,     \* what evaluate returned or raised
    built,         \* what build_app has constructed
    boot_error,    \* what build_app raised
    adapter_params,\* the params build_app handed to Adapter.create
    boot_warnings, \* the warnings list of build_app
    sessions,      \* app.state.sessions: session id -> ChatSession
    lock,          \* app.state.lock: the request holding it, or NoRequest
    reqs,          \* the requests in flight, each with its locals
    utcnow,        \* dt.datetime.now(dt.timezone.utc), in ticks
    accesses,      \* the accesses made to app.state.sessions so far
    gens,          \* the turns of a session whose generators may stay open
    msg_turn       \* for each message of the transcript, the turn it is of

\* state of a ParamPolicy evaluation and of build_app
policyVars == <<pp_rules, pp_model, pp_raw, pp_exists, pp_pc, pp_result, built,
                boot_error, adapter_params, boot_warnings>>

\* state of the web application
webVars == <<sessions, lock, reqs, utcnow, accesses>>

\* state of the turns of a session whose generators may stay open
genVars == <<gens, msg_turn>>

vars == <<policy, root_dir, t_file, t_records, t_messages, pc,
          mode, outgoing, now, start, attempt, yielded_any, partial,
          innerChunks, produced, outcome, cause, result, innerReturned,
          delivered, calls, sleeps, lastSleep, attemptAt, fails, lastExc,
          lastElapsed, allRetryable, lastRaised, assistantAppends, finalRuns, turns,
          submitted, prevOk, prevReplied, turnLimit, context, use_enc, ctx_in,
          ctx_out, ctx_again, ctx_pc,
          disk, tr_pc, system_prompt, expected, log_origin, appended, opened, view,
          policyVars, webVars, genVars>>

\* ------------------------------------------------- ResilientProvider
\* self._retryable_excs
retryable_excs == retry_exceptions \cup OPENAI_ERRORS

\* isinstance(exc, classes)
IsInstance(exc, classes) == Ancestors(exc.cls) \cap classes # {}

\* _should_retry with the status test reduced to "has a status code"
ShouldRetry_AnyStatus(exc) ==
    \/ IsInstance(exc, retryable_excs)
    \/ exc.status_code # 0

\* _should_retry(exc)
ShouldRetry(exc) ==
    \/ IsInstance(exc, retryable_excs)
    \/ exc.status_code # 0 /\ exc.status_code \in retry_status_codes

\* float(ra) of a Retry-After header value: ok is FALSE when float() raises.
ParseFloat(ra) ==
    CASE ra = "0"  -> [ok |-> TRUE, val |-> 0]
      [] ra = "3"  -> [ok |-> TRUE, val |-> 3]
      [] ra = "-1" -> [ok |-> TRUE, val |-> -1]
      [] OTHER     -> [ok |-> FALSE, val |-> 0]

\* _retry_after_seconds(exc): ok is FALSE for a result of None.
RetryAfterSeconds(exc) ==
    IF exc.retry_after # "" THEN ParseFloat(exc.retry_after)
    ELSE [ok |-> FALSE, val |-> 0]

\* _sleep_backoff with the hint of the server handed to time.sleep as it is
BackoffDelay_RawHint(att, exc, jitter) ==
    LET ra == RetryAfterSeconds(exc)
    IN  IF ra.ok THEN ra.val
        ELSE Min(policy.base_delay * Pow2(att) + jitter, policy.max_delay)

\* the delay _sleep_backoff(attempt, exc) passes to time.sleep
BackoffDelay(att, exc, jitter) ==
    LET ra == RetryAfterSeconds(exc)
    IN  IF ra.ok THEN Min(Max(ra.val, 0), policy.max_delay)
        ELSE Min(policy.base_delay * Pow2(att) + jitter, policy.max_delay)

\* the except clauses with KeyboardInterrupt caught like any other exception
ExceptClause_CatchAll(exc) == "handle"

\* which except clause of chat / gen takes a raised exception
ExceptClause(exc) ==
    IF IsInstance(exc, {"KeyboardInterrupt"}) THEN "reraise"
    ELSE IF IsInstance(exc, {"Exception"}) THEN "handle"
    ELSE "propagate"

\* chat's final-failure condition without the elapsed test
ChatGivesUp_NoTimeout(exc, att, elapsed) ==
    \/ ~ShouldRetry(exc)
    \/ att >= policy.max_retries

\* chat's final-failure condition with the attempt test off by one
ChatGivesUp_OffByOne(exc, att, elapsed) ==
    \/ ~ShouldRetry(exc)
    \/ att > policy.max_retries
    \/ elapsed >= policy.total_timeout

\* chat: the condition of the final failure
ChatGivesUp(exc, att, elapsed) ==
    \/ ~ShouldRetry(exc)
    \/ att >= policy.max_retries
    \/ elapsed >= policy.total_timeout

\* gen's final-failure condition with the attempt test off by one
StreamGivesUp_OffByOne(exc, att, elapsed) ==
    \/ ~ShouldRetry(exc)
    \/ att > policy.max_retries
    \/ elapsed >= policy.total_timeout

\* gen's final-failure condition without the attempt test
StreamGivesUp_Unbounded(exc, att, elapsed) ==
    \/ ~ShouldRetry(exc)
    \/ elapsed >= policy.total_timeout

\* gen: the condition of the final failure before the first chunk
StreamGivesUp(exc, att, elapsed) ==
    \/ ~ShouldRetry(exc)
    \/ att >= policy.max_retries
    \/ elapsed >= policy.total_timeout

\* gen's handler without the yielded_any test
StreamVerdict_Restart(yielded, exc, att, elapsed) ==
    IF StreamGivesUp(exc, att, elapsed) THEN "stream_failed_after_retries"
    ELSE "retry"

\* gen: what the handler does with a caught exception
StreamVerdict(yielded, exc, att, elapsed) ==
    IF yielded THEN "stream_failed_mid_reply"
    ELSE IF StreamGivesUp(exc, att, elapsed) THEN "stream_failed_after_retries"
    ELSE "retry"

\* the exceptions an inner call can raise
Raisable == InnerExcs \cup {KeyboardInterrupt, APITimeoutError}

\* ------------------------------------------------------- Transcript
HeaderRecord == [type |-> "header", role |-> "", content |-> "", status |-> ""]

MessageRecord(role, content, status) ==
    [type |-> "message", role |-> role, content |-> content, status |-> status]

Msg(role, content) == [role |-> role, content |-> content]

\* append_message with the message put in front of the in-memory view
AppendMessage_Prepends(role, content, status) ==
    /\ IF root_dir
       THEN /\ t_file' = Append(t_file, MessageRecord(role, content, status))
            /\ UNCHANGED t_records
       ELSE /\ t_records' = Append(t_records, MessageRecord(role, content, status))
            /\ UNCHANGED t_file
    /\ t_messages' = <<Msg(role, content)>> \o t_messages

\* Transcript.append_message(role, content, status)
AppendMessage(role, content, status) ==
    /\ IF root_dir
       THEN /\ t_file' = Append(t_file, MessageRecord(role, content, status))
            /\ UNCHANGED t_records
       ELSE /\ t_records' = Append(t_records, MessageRecord(role, content, status))
            /\ UNCHANGED t_file
    /\ t_messages' = IF role \in {"system", "user", "assistant"}
                     THEN Append(t_messages, Msg(role, content))
                     ELSE t_messages

\* the record stream of the transcript, wherever it is kept
Records == IF root_dir THEN t_file ELSE t_records

\* ------------------------------------------- ContextWindowManager
\* ChatSession built with context=None: no ctx_mgr
NoContext == [max_input_tokens |-> -1, response_reserve_tokens |-> -1,
              always_keep_last_n |-> -1]

\* _rough_token_count(text)
RoughTokenCount(text) ==
    IF Len(text) = 0 THEN 0 ELSE Max(1, (Len(text) + 3) \div 4)

\* len(self._enc.encode(text)): the encoding is tiktoken's, outside the
\* repository; it stands here as a tokenizer of one token per character,
\* which counts differently from the heuristic.
EncLen(text) == Len(text)

\* TokenCounter.count_text(text)
CountText(text) == IF use_enc THEN EncLen(text) ELSE RoughTokenCount(text)

RECURSIVE CountMessages(_)
\* TokenCounter.count_messages(messages)
CountMessages(messages) ==
    IF messages = <<>> THEN 0
    ELSE 4 + CountText(Head(messages).content) + CountMessages(Tail(messages))

\* s[i:] for 0 <= i (Python index, from 0)
SliceFrom(s, i) == SubSeq(s, i + 1, Len(s))

\* s[-k:] for 0 <= k: the last k elements, and all of s when k = 0
LastK(s, k) == IF k = 0 \/ k >= Len(s) THEN s ELSE SubSeq(s, Len(s) - k + 1, Len(s))

\* target of apply: the input budget
Target(p) == Max(1, p.max_input_tokens - Max(0, p.response_reserve_tokens))

\* any(m.get("role") == "user" for m in s)
AnyUser(s) == \E i \in 1..Len(s) : s[i].role = "user"

\* the head loop dropping every head message once the list is over budget
DropIdx_DropsAll(system, head, tail, target, drop_idx) == Len(head)

RECURSIVE DropIdx(_, _, _, _, _)
\* apply: the loop that trims from the head, oldest first
DropIdx(system, head, tail, target, drop_idx) ==
    IF drop_idx < Len(head)
       /\ CountMessages(system \o SliceFrom(head, drop_idx) \o tail) > target
    THEN DropIdx(system, head, tail, target, drop_idx + 1)
    ELSE drop_idx

\* apply with a final loop that tests after its body instead of before
FinalGuard_TestsAfter(system, trimmed, target) ==
    LET shorter == system \o SliceFrom(trimmed, Len(system) + 1)
    IN  IF CountMessages(shorter) > target /\ Len(shorter) > Len(system) + 1
        THEN system \o SliceFrom(shorter, Len(system) + 1)
        ELSE shorter

\* apply without its final loop
FinalGuard_Skipped(system, trimmed, target) == trimmed

RECURSIVE FinalGuard(_, _, _)
\* apply: the final loop that shortens what is left
FinalGuard(system, trimmed, target) ==
    IF CountMessages(trimmed) > target /\ Len(trimmed) > Len(system) + 1
    THEN FinalGuard(system, system \o SliceFrom(trimmed, Len(system) + 1), target)
    ELSE trimmed

\* apply with the head kept and the tail trimmed instead
Apply_TrimsNewest(p, messages) ==
    IF messages = <<>> THEN messages
    ELSE LET target == Target(p)
             fits == {n \in 1..Len(messages) :
                        CountMessages(SubSeq(messages, 1, n)) <= target}
         IN  IF fits = {} THEN SubSeq(messages, 1, 1)
             ELSE SubSeq(messages, 1, CHOOSE n \in fits : \A k \in fits : k <= n)

\* apply that cuts the list down to system and tail whether it fits or not
Apply_AlwaysTail(p, messages) ==
    IF messages = <<>> THEN messages
    ELSE LET isSys == messages[1].role = "system"
             rest  == IF isSys THEN Tail(messages) ELSE messages
         IN  (IF isSys THEN <<messages[1]>> ELSE <<>>)
             \o LastK(rest, Min(Max(1, p.always_keep_last_n), Len(rest)))

\* apply that keeps only the newest message when the list is over budget
Apply_LastOnly(p, messages) ==
    IF messages = <<>> \/ CountMessages(messages) <= Target(p) THEN messages
    ELSE IF messages[1].role = "system" /\ Len(messages) > 1
         THEN <<messages[1], messages[Len(messages)]>>
         ELSE <<messages[Len(messages)]>>

\* ContextWindowManager.apply(messages) under policy p
Apply(p, messages) ==
    IF messages = <<>> THEN messages
    ELSE
    LET isSys  == messages[1].role = "system"
        system == IF isSys THEN <<messages[1]>> ELSE <<>>
        rest   == IF isSys THEN Tail(messages) ELSE messages
        target == Target(p)
        keep_tail_n == Min(p.always_keep_last_n, Len(rest))
        head == IF keep_tail_n > 0 THEN SubSeq(rest, 1, Len(rest) - keep_tail_n) ELSE rest
        tail == IF keep_tail_n > 0 THEN LastK(rest, keep_tail_n) ELSE <<>>
        candidate == system \o head \o tail
        drop_idx  == DropIdx(system, head, tail, target, 0)
        trimmed   == system \o SliceFrom(head, drop_idx) \o tail
        last_user_idx == CHOOSE i \in 0..(Len(tail) - 1) :
                            /\ tail[i + 1].role = "user"
                            /\ \A j \in (i + 1)..(Len(tail) - 1) : tail[j + 1].role # "user"
        safe == IF ~AnyUser(LastK(trimmed, keep_tail_n)) /\ AnyUser(tail)
                THEN system \o SliceFrom(head, drop_idx) \o SliceFrom(tail, last_user_idx)
                ELSE trimmed
    IN  IF CountMessages(candidate) <= target THEN candidate
        ELSE FinalGuard(system, safe, target)

\* ------------------------------------------------------ ChatSession
RECURSIVE Join(_)
\* "".join(partial)
Join(p) == IF p = <<>> THEN "" ELSE Head(p) \o Join(Tail(p))

\* _outgoing_messages() with the last element left out
OutgoingMessages_DropsNewest(msgs) ==
    IF context = NoContext THEN SubSeq(msgs, 1, Len(msgs) - 1) ELSE Apply(context, msgs)

\* _outgoing_messages(): msgs is self.transcript.messages
OutgoingMessages(msgs) ==
    IF context = NoContext THEN msgs ELSE Apply(context, msgs)

\* the status run_turn_stream passes to append_message in its finally block
FinalStatus(how) == "complete"

\* the persisted content taken from the last chunk alone
FinalContent_LastOnly(p) == IF p = <<>> THEN "" ELSE p[Len(p)]

\* the content run_turn_stream persists
FinalContent(p) == Join(p)

\* the finally block of run_turn_stream.gen
Finalize ==
    /\ finalRuns' = finalRuns + 1
    /\ IF partial # <<>>
       THEN /\ AppendMessage("assistant", FinalContent(partial), FinalStatus(outcome'))
            /\ assistantAppends' = assistantAppends + 1
       ELSE UNCHANGED <<t_file, t_records, t_messages, assistantAppends>>

\* ------------------------------------------------------------ Init
\* Transcript(system_prompt, root_dir given or None) with no existing log
FreshTranscript ==
    /\ t_file = IF root_dir
                THEN <<HeaderRecord, MessageRecord("system", SystemPrompt, "complete")>>
                ELSE <<>>
    /\ t_records = IF root_dir
                   THEN <<>>
                   ELSE <<HeaderRecord, MessageRecord("system", SystemPrompt, "complete")>>
    /\ t_messages = <<Msg("system", SystemPrompt)>>

\* a ChatSession on which no turn has been run
TurnIdle ==
    /\ pc = "idle"
    /\ mode = "none"
    /\ outgoing = <<>>
    /\ now = 0
    /\ start = 0
    /\ attempt = 0
    /\ yielded_any = FALSE
    /\ partial = <<>>
    /\ innerChunks = 0
    /\ produced = <<>>
    /\ outcome = "none"
    /\ cause = NoExc
    /\ result = ""
    /\ innerReturned = ""
    /\ delivered = <<>>
    /\ calls = 0
    /\ sleeps = 0
    /\ lastSleep = 0
    /\ attemptAt = 0
    /\ fails = 0
    /\ lastExc = NoExc
    /\ lastElapsed = 0
    /\ allRetryable = TRUE
    /\ lastRaised = NoExc
    /\ assistantAppends = 0
    /\ finalRuns = 0
    /\ turns = 0
    /\ submitted = <<>>
    /\ prevOk = TRUE
    /\ prevReplied = TRUE

\* nobody calls ContextWindowManager.apply directly
NoDirectCall ==
    /\ ctx_in = <<>>
    /\ ctx_out = <<>>
    /\ ctx_again = <<>>
    /\ ctx_pc = "idle"

\* the log file is not looked at as text: a session owns the transcript
NoLogText ==
    /\ disk = <<>>
    /\ tr_pc = "session"
    /\ system_prompt = SystemPrompt
    /\ expected = <<>>
    /\ log_origin = "none"
    /\ appended = 0
    /\ opened = 0
    /\ view = <<>>

\* no ParamPolicy is evaluated and build_app is not run
NoPolicyCall ==
    /\ pp_rules = <<>>
    /\ pp_model = <<>>
    /\ pp_raw = <<>>
    /\ pp_exists = FALSE
    /\ pp_pc = "idle"
    /\ pp_result = <<>>
    /\ built = {}
    /\ boot_error = NoExc
    /\ adapter_params = <<>>
    /\ boot_warnings = <<>>

\* no turn is run by a caller that keeps generators open
NoGenerators ==
    /\ gens = <<>>
    /\ msg_turn = <<>>

\* the web application is not created
NoWeb ==
    /\ sessions = <<>>
    /\ lock = 0
    /\ reqs = <<>>
    /\ utcnow = 0
    /\ accesses = {}

\* A fresh Transcript, a ResilientProvider around the inner provider, and
\* an idle ChatSession built without a context policy, driven for one turn.
Init ==
    /\ policy \in Policies
    /\ root_dir \in BOOLEAN
    /\ FreshTranscript
    /\ TurnIdle
    /\ turnLimit = 1
    /\ context = NoContext
    /\ use_enc = FALSE
    /\ NoDirectCall
    /\ NoLogText
    /\ NoPolicyCall
    /\ NoWeb
    /\ NoGenerators

\* what no step of a session changes
setupVars == <<policy, root_dir, turnLimit, context, use_enc, ctx_in, ctx_out,
               ctx_again, ctx_pc, disk, tr_pc, system_prompt, expected, log_origin,
               appended, opened, view, policyVars, webVars, genVars>>
\* what no step within a turn changes
cfgVars  == <<setupVars, submitted, prevOk, prevReplied>>
fileVars == <<t_file, t_records, t_messages>>
failVars == <<fails, lastExc, lastElapsed, allRetryable>>

\* the handler of chat / gen binds exc and computes elapsed
Caught(exc, elapsed) ==
    /\ fails' = fails + 1
    /\ lastExc' = exc
    /\ lastElapsed' = elapsed
    /\ allRetryable' = (allRetryable /\ ShouldRetry(exc))

\* a turn that keeps the trimmed list as the messages of the transcript
TurnStarts_KeepsTrimmed(user_text) ==
    /\ pc = "idle"
    /\ turns < turnLimit
    /\ turns' = turns + 1
    /\ submitted' = Append(submitted, user_text)
    /\ prevOk' = (prevOk /\ (turns = 0 \/ outcome = "ok"))
    /\ prevReplied' = (prevReplied /\ (turns = 0 \/ (outcome = "ok" /\ assistantAppends = 1)))
    /\ IF root_dir
       THEN /\ t_file' = Append(t_file, MessageRecord("user", user_text, "complete"))
            /\ UNCHANGED t_records
       ELSE /\ t_records' = Append(t_records, MessageRecord("user", user_text, "complete"))
            /\ UNCHANGED t_file
    /\ outgoing' = OutgoingMessages(Append(t_messages, Msg("user", user_text)))
    /\ t_messages' = outgoing'
    /\ partial' = <<>>
    /\ delivered' = <<>>
    /\ outcome' = "none"
    /\ cause' = NoExc
    /\ result' = ""
    /\ innerReturned' = ""
    /\ sleeps' = 0
    /\ lastSleep' = 0
    /\ fails' = 0
    /\ lastExc' = NoExc
    /\ lastElapsed' = 0
    /\ allRetryable' = TRUE
    /\ lastRaised' = NoExc
    /\ assistantAppends' = 0
    /\ finalRuns' = 0
    /\ yielded_any' = FALSE
    /\ innerChunks' = 0
    /\ produced' = <<>>
    /\ attempt' = 0
    /\ attemptAt' = 0
    /\ now' = 0
    /\ start' = 0
    /\ UNCHANGED setupVars

\* a turn starts: what both entry points of ChatSession do first
TurnStarts(user_text) ==
    /\ pc = "idle"
    /\ turns < turnLimit
    /\ turns' = turns + 1
    /\ submitted' = Append(submitted, user_text)
    /\ prevOk' = (prevOk /\ (turns = 0 \/ outcome = "ok"))
    /\ prevReplied' = (prevReplied /\ (turns = 0 \/ (outcome = "ok" /\ assistantAppends = 1)))
    /\ AppendMessage("user", user_text, "complete")
    /\ outgoing' = OutgoingMessages(t_messages')
    /\ partial' = <<>>
    /\ delivered' = <<>>
    /\ outcome' = "none"
    /\ cause' = NoExc
    /\ result' = ""
    /\ innerReturned' = ""
    /\ sleeps' = 0
    /\ lastSleep' = 0
    /\ fails' = 0
    /\ lastExc' = NoExc
    /\ lastElapsed' = 0
    /\ allRetryable' = TRUE
    /\ lastRaised' = NoExc
    /\ assistantAppends' = 0
    /\ finalRuns' = 0
    /\ yielded_any' = FALSE
    /\ innerChunks' = 0
    /\ produced' = <<>>
    /\ attempt' = 0
    /\ attemptAt' = 0
    /\ now' = 0
    /\ start' = 0
    /\ UNCHANGED setupVars

\* ChatSession.run_turn up to the first inner call of ResilientProvider.chat
RunTurn(user_text) ==
    /\ TurnStarts(user_text)
    /\ mode' = "chat"
    /\ calls' = 1
    /\ pc' = "calling"

\* inner.chat returns: chat returns it, run_turn appends the assistant message
InnerChatReturns(d, content) ==
    /\ pc = "calling" /\ mode = "chat"
    /\ now' = now + d
    /\ innerReturned' = content
    /\ result' = content
    /\ outcome' = "ok"
    /\ AppendMessage("assistant", content, "complete")
    /\ assistantAppends' = assistantAppends + 1
    /\ pc' = "idle"
    /\ UNCHANGED <<lastRaised, cfgVars, failVars, mode, outgoing, start, attempt,
                   yielded_any, partial, innerChunks, produced, cause, delivered, calls,
                   sleeps, lastSleep, attemptAt, finalRuns, turns>>

\* inner.chat raises: the except clauses of ResilientProvider.chat
InnerChatRaises(d, exc) ==
    /\ pc = "calling" /\ mode = "chat"
    /\ now' = now + d
    /\ lastRaised' = exc
    /\ LET elapsed == now' - start
       IN  CASE ExceptClause(exc) = "handle" ->
                  /\ Caught(exc, elapsed)
                  /\ IF ChatGivesUp(exc, attempt, elapsed)
                     THEN /\ outcome' = "failed_after_retries"
                          /\ cause' = exc
                          /\ pc' = "idle"
                     ELSE /\ pc' = "backoff"
                          /\ UNCHANGED <<outcome, cause>>
             [] OTHER ->
                  /\ outcome' = exc.cls
                  /\ pc' = "idle"
                  /\ UNCHANGED <<failVars, cause>>
    /\ UNCHANGED <<cfgVars, fileVars, mode, outgoing, start, attempt,
                   yielded_any, partial, innerChunks, produced, result, innerReturned,
                   delivered, calls, sleeps, lastSleep, attemptAt,
                   assistantAppends, finalRuns, turns>>

\* _sleep_backoff returns, attempt += 1, and the loop starts the next attempt
SleepBackoff(jitter) ==
    /\ pc = "backoff"
    /\ LET delay == BackoffDelay(attempt, lastExc, jitter)
       IN  /\ lastSleep' = delay
           /\ now' = now + delay
    /\ sleeps' = sleeps + 1
    /\ attempt' = attempt + 1
    /\ calls' = calls + 1
    /\ attemptAt' = now' - start
    /\ innerChunks' = 0
    /\ produced' = <<>>
    /\ pc' = IF mode = "chat" THEN "calling" ELSE "streaming"
    /\ UNCHANGED <<lastRaised, cfgVars, fileVars, failVars, mode, outgoing, start,
                   yielded_any, partial, outcome, cause, result, innerReturned,
                   delivered, assistantAppends, finalRuns, turns>>

\* KeyboardInterrupt during time.sleep: raised inside the except handler, it
\* leaves chat / gen; in a streaming turn it passes the finally block.
SleepInterrupted(jitter, slept) ==
    /\ pc = "backoff"
    /\ LET delay == BackoffDelay(attempt, lastExc, jitter)
       IN  /\ slept <= delay
           /\ lastSleep' = delay
           /\ now' = now + slept
    /\ sleeps' = sleeps + 1
    /\ lastRaised' = KeyboardInterrupt
    /\ outcome' = "KeyboardInterrupt"
    /\ pc' = "idle"
    /\ IF mode = "stream" THEN Finalize
       ELSE UNCHANGED <<fileVars, assistantAppends, finalRuns>>
    /\ UNCHANGED <<cfgVars, failVars, mode, outgoing, start, attempt,
                   yielded_any, partial, innerChunks, produced, cause, result, innerReturned,
                   delivered, calls, attemptAt, turns>>

\* ChatSession.run_turn_stream: returns the generator, nothing has run yet
RunTurnStream(user_text) ==
    /\ TurnStarts(user_text)
    /\ mode' = "stream"
    /\ calls' = 0
    /\ pc' = "created"

\* the consumer asks for the next chunk; the first request, d ticks after
\* run_turn_stream returned, starts gen and its first attempt
ConsumerNext(d) ==
    /\ mode = "stream"
    /\ \/ /\ pc = "created"
          /\ now' = now + d
          /\ start' = now'
          /\ calls' = 1
       \/ /\ pc = "suspended"
          /\ d = 0
          /\ UNCHANGED <<now, start, calls>>
    /\ pc' = "streaming"
    /\ UNCHANGED <<lastRaised, cfgVars, fileVars, failVars, mode, outgoing, attempt,
                   yielded_any, partial, innerChunks, produced, outcome, cause, result,
                   innerReturned, delivered, sleeps, lastSleep, attemptAt,
                   assistantAppends, finalRuns, turns>>

\* the inner stream produces a chunk: gen yields it, run_turn_stream.gen
\* records it in partial and yields it to the consumer
InnerStreamYields(d, piece) ==
    /\ pc = "streaming"
    /\ yielded_any => d = 0
    /\ innerChunks < MaxChunks
    /\ now' = now + d
    /\ innerChunks' = innerChunks + 1
    /\ produced' = Append(produced, piece)
    /\ yielded_any' = TRUE
    /\ partial' = Append(partial, piece)
    /\ delivered' = Append(delivered, piece)
    /\ pc' = "suspended"
    /\ UNCHANGED <<lastRaised, cfgVars, fileVars, failVars, mode, outgoing, start, attempt,
                   outcome, cause, result, innerReturned, calls, sleeps,
                   lastSleep, attemptAt, assistantAppends, finalRuns, turns>>

\* the inner stream ends: gen returns, the for loop of run_turn_stream.gen
\* ends and its finally block runs
InnerStreamEnds(d) ==
    /\ pc = "streaming"
    /\ yielded_any => d = 0
    /\ now' = now + d
    /\ outcome' = "ok"
    /\ Finalize
    /\ pc' = "idle"
    /\ UNCHANGED <<lastRaised, cfgVars, failVars, mode, outgoing, start, attempt,
                   yielded_any, partial, innerChunks, produced, cause, result, innerReturned,
                   delivered, calls, sleeps, lastSleep, attemptAt, turns>>

\* the inner stream raises: the except clauses of gen; an error that leaves
\* gen passes the finally block of run_turn_stream.gen
InnerStreamRaises(d, exc) ==
    /\ pc = "streaming"
    /\ yielded_any => d = 0
    /\ now' = now + d
    /\ lastRaised' = exc
    /\ LET elapsed == now' - start
           verdict == StreamVerdict(yielded_any, exc, attempt, elapsed)
       IN  CASE ExceptClause(exc) = "handle" ->
                  /\ Caught(exc, elapsed)
                  /\ IF verdict = "retry"
                     THEN /\ pc' = "backoff"
                          /\ UNCHANGED <<outcome, cause, fileVars,
                                         assistantAppends, finalRuns>>
                     ELSE /\ outcome' = verdict
                          /\ cause' = exc
                          /\ Finalize
                          /\ pc' = "idle"
             [] OTHER ->
                  /\ outcome' = exc.cls
                  /\ Finalize
                  /\ pc' = "idle"
                  /\ UNCHANGED <<failVars, cause>>
    /\ UNCHANGED <<cfgVars, mode, outgoing, start, attempt, yielded_any, partial,
                   innerChunks, produced, result, innerReturned, delivered, calls, sleeps,
                   lastSleep, attemptAt, turns>>

\* the consumer closes the generator: GeneratorExit is raised at the yield of
\* run_turn_stream.gen and its finally block runs; a generator that was never
\* started is closed without running any of its code
ConsumerClose ==
    /\ mode = "stream"
    /\ \/ /\ pc = "suspended"
          /\ Finalize
       \/ /\ pc = "created"
          /\ UNCHANGED <<fileVars, assistantAppends, finalRuns>>
    /\ outcome' = "closed"
    /\ pc' = "idle"
    /\ UNCHANGED <<lastRaised, cfgVars, failVars, mode, outgoing, now, start, attempt,
                   yielded_any, partial, innerChunks, produced, cause, result,
                   innerReturned, delivered, calls, sleeps, lastSleep,
                   attemptAt, turns>>

Next ==
    \/ \E u \in UserTexts : RunTurn(u)
    \/ \E d \in CallTicks, c \in Replies : InnerChatReturns(d, c)
    \/ \E d \in CallTicks, e \in Raisable : InnerChatRaises(d, e)
    \/ \E j \in 0..JitterTicks : SleepBackoff(j)
    \/ \E j \in 0..JitterTicks, s \in CallTicks : SleepInterrupted(j, s)
    \/ \E u \in UserTexts : RunTurnStream(u)
    \/ \E d \in CallTicks : ConsumerNext(d)
    \/ \E d \in CallTicks, p \in Pieces : InnerStreamYields(d, p)
    \/ \E d \in CallTicks : InnerStreamEnds(d)
    \/ \E d \in CallTicks, e \in Raisable : InnerStreamRaises(d, e)
    \/ ConsumerClose

Spec == Init /\ [][Next]_vars

\* the inner provider answers every call: it returns, yields, ends or raises
InnerResponds ==
    \/ \E d \in CallTicks, c \in Replies : InnerChatReturns(d, c)
    \/ \E d \in CallTicks, e \in Raisable : InnerChatRaises(d, e)
    \/ \E d \in CallTicks, p \in Pieces : InnerStreamYields(d, p)
    \/ \E d \in CallTicks : InnerStreamEnds(d)
    \/ \E d \in CallTicks, e \in Raisable : InnerStreamRaises(d, e)

\* time.sleep returns
SleepReturns == \E j \in 0..JitterTicks : SleepBackoff(j)

\* the consumer of a stream keeps reading it
ConsumerReads == \E d \in CallTicks : ConsumerNext(d)

\* The same turn with every inner call answered, every sleep over in the end
\* and every stream read on by its consumer.
SpecLive ==
    /\ Init
    /\ [][Next]_vars
    /\ WF_vars(InnerResponds)
    /\ WF_vars(SleepReturns)
    /\ WF_vars(ConsumerReads)

\* ------------------------------------------------ a session of several turns
\* the retry policy of the sessions driven for several turns
TurnPolicies == {[max_retries |-> 1, base_delay |-> 0, max_delay |-> 2,
                  total_timeout |-> 1]}
\* the context policies of those sessions
SessionContexts ==
    {[max_input_tokens |-> 16, response_reserve_tokens |-> 2, always_keep_last_n |-> 1],
     [max_input_tokens |-> 17, response_reserve_tokens |-> 0, always_keep_last_n |-> 2],
     [max_input_tokens |-> 6,  response_reserve_tokens |-> 0, always_keep_last_n |-> 0]}
TurnTexts   == {"hi", "more"}
TurnReplies == {"ok", "sure"}
TurnPieces  == {"a"}
\* what the inner provider raises in those sessions
TurnExcs ==
    { [cls |-> "TimeoutError",        status_code |-> 0, retry_after |-> ""],
      [cls |-> "ProviderClientError", status_code |-> 0, retry_after |-> ""],
      KeyboardInterrupt }

\* A fresh in-memory or durable Transcript and an idle ChatSession built with
\* or without a context policy.
InitTurns ==
    /\ policy \in TurnPolicies
    /\ root_dir \in BOOLEAN
    /\ FreshTranscript
    /\ TurnIdle
    /\ turnLimit = MaxTurns
    /\ context \in {NoContext} \cup SessionContexts
    /\ use_enc \in (IF context = NoContext THEN {FALSE} ELSE BOOLEAN)
    /\ NoDirectCall
    /\ NoLogText
    /\ NoPolicyCall
    /\ NoWeb
    /\ NoGenerators

\* the steps of Next, every call answered within the tick
NextTurns ==
    \/ \E u \in TurnTexts : RunTurn(u)
    \/ \E c \in TurnReplies : InnerChatReturns(0, c)
    \/ \E e \in TurnExcs : InnerChatRaises(0, e)
    \/ SleepBackoff(0)
    \/ SleepInterrupted(0, 0)
    \/ \E u \in TurnTexts : RunTurnStream(u)
    \/ ConsumerNext(0)
    \/ \E p \in TurnPieces : InnerStreamYields(0, p)
    \/ InnerStreamEnds(0)
    \/ \E e \in TurnExcs : InnerStreamRaises(0, e)
    \/ ConsumerClose

SpecTurns == InitTurns /\ [][NextTurns]_vars

\* ------------------------------------- ContextWindowManager.apply called alone
MaxCtxLen == 4    \* longest message list handed to apply
CtxContents == {"", "abcdefghi"}
CtxMessages == {Msg(r, c) : r \in {"system", "user", "assistant"}, c \in CtxContents}
CtxInputs   == UNION {[1..n -> CtxMessages] : n \in 0..MaxCtxLen}
ContextPolicies ==
    {[max_input_tokens |-> m, response_reserve_tokens |-> r, always_keep_last_n |-> k] :
        m \in {4, 12, 20}, r \in {0, 8}, k \in 0..2}

\* a session that is never driven
IdleSession ==
    /\ policy \in TurnPolicies
    /\ root_dir = FALSE
    /\ FreshTranscript
    /\ TurnIdle
    /\ turnLimit = 0

\* ContextWindowManager(policy) and a message list to hand to apply
InitCtx ==
    /\ IdleSession
    /\ context \in ContextPolicies
    /\ use_enc \in BOOLEAN
    /\ ctx_in \in CtxInputs
    /\ ctx_out = <<>>
    /\ ctx_again = <<>>
    /\ ctx_pc = "ready"
    /\ NoLogText
    /\ NoPolicyCall
    /\ NoWeb
    /\ NoGenerators

\* out = ctx_mgr.apply(messages)
ApplyCall ==
    /\ ctx_pc = "ready"
    /\ ctx_out' = Apply(context, ctx_in)
    /\ ctx_pc' = "done"
    /\ UNCHANGED <<policy, root_dir, fileVars, pc, mode, outgoing, now, start,
                   attempt, yielded_any, partial, innerChunks, produced, outcome, cause,
                   result, innerReturned, delivered, calls, sleeps, lastSleep,
                   attemptAt, failVars, lastRaised, assistantAppends, finalRuns,
                   turns, submitted, prevOk, prevReplied, turnLimit, context, use_enc,
                   ctx_in, ctx_again, disk, tr_pc, system_prompt, expected, log_origin,
                   appended, opened, view, policyVars, webVars, genVars>>

\* again = ctx_mgr.apply(out)
ApplyAgain ==
    /\ ctx_pc = "done"
    /\ ctx_again' = Apply(context, ctx_out)
    /\ ctx_pc' = "again"
    /\ UNCHANGED <<policy, root_dir, fileVars, pc, mode, outgoing, now, start,
                   attempt, yielded_any, partial, innerChunks, produced, outcome, cause,
                   result, innerReturned, delivered, calls, sleeps, lastSleep,
                   attemptAt, failVars, lastRaised, assistantAppends, finalRuns,
                   turns, submitted, prevOk, prevReplied, turnLimit, context, use_enc,
                   ctx_in, ctx_out, disk, tr_pc, system_prompt, expected, log_origin,
                   appended, opened, view, policyVars, webVars, genVars>>

NextCtx == ApplyCall \/ ApplyAgain

SpecCtx == InitCtx /\ [][NextCtx]_vars

\* ------------------------------------------- the transcript log as text
\* In this part a string is the sequence of its characters, and the text of a
\* JSON line the sequence of its tokens: braces, the values of type, role and
\* status, and the characters of the quoted content.
MaxAppends == 2    \* calls of append_message on one log
MaxOpens   == 2    \* Transcript objects constructed on one log

NL    == "\n"
Quote == "\""
Back  == "\\"

RECURSIVE Escape(_)
\* json.dumps of a string, without the quotes
Escape(c) ==
    IF c = <<>> THEN <<>>
    ELSE (CASE Head(c) = NL    -> <<Back, "n">>
            [] Head(c) = Quote -> <<Back, Quote>>
            [] Head(c) = Back  -> <<Back, Back>>
            [] OTHER           -> <<Head(c)>>) \o Escape(Tail(c))

RECURSIVE ValidEscaped(_)
\* json.loads accepts e as the inside of a quoted string
ValidEscaped(e) ==
    IF e = <<>> THEN TRUE
    ELSE IF Head(e) = Back
         THEN Len(e) >= 2 /\ e[2] \in {"n", Quote, Back} /\ ValidEscaped(Tail(Tail(e)))
         ELSE Head(e) \notin {NL, Quote} /\ ValidEscaped(Tail(e))

RECURSIVE Unescape(_)
\* json.loads of the inside of a quoted string
Unescape(e) ==
    IF e = <<>> THEN <<>>
    ELSE IF Head(e) = Back
         THEN <<(IF e[2] = "n" THEN NL ELSE e[2])>> \o Unescape(Tail(Tail(e)))
         ELSE <<Head(e)>> \o Unescape(Tail(e))

\* json.dumps(rec) with the content written as it is
Dumps_Raw(rec) ==
    IF rec.type = "header" THEN <<"{", "header", "}">>
    ELSE <<"{", rec.type, rec.role, rec.status, Quote>> \o rec.content \o <<Quote, "}">>

\* json.dumps(rec, ensure_ascii=False)
Dumps(rec) ==
    IF rec.type = "header" THEN <<"{", "header", "}">>
    ELSE <<"{", rec.type, rec.role, rec.status, Quote>> \o Escape(rec.content) \o <<Quote, "}">>

\* JSON texts that are values but not objects
NonObjectJson == {<<"[", "]">>, <<"4", "2">>, <<"null">>}

\* what json.loads raises
JSONDecodeError == [kind |-> "JSONDecodeError"]

\* json.loads(line): a dict, another value, or JSONDecodeError.  A field the
\* object does not have is absent from has.
Loads(line) ==
    IF line \in NonObjectJson THEN [kind |-> "value"]
    ELSE IF Len(line) >= 2 /\ line[1] = "{" /\ line[Len(line)] = "}"
    THEN LET body == SubSeq(line, 2, Len(line) - 1)
         IN  IF body = <<>>
             THEN [kind |-> "dict", has |-> {}, type |-> "", role |-> "",
                   status |-> "", content |-> <<>>]
             ELSE IF Len(body) = 1
             THEN [kind |-> "dict", has |-> {"type"}, type |-> body[1], role |-> "",
                   status |-> "", content |-> <<>>]
             ELSE IF /\ Len(body) >= 5
                     /\ body[4] = Quote
                     /\ body[Len(body)] = Quote
                     /\ ValidEscaped(SubSeq(body, 5, Len(body) - 1))
             THEN [kind |-> "dict", has |-> {"type", "role", "status", "content"},
                   type |-> body[1], role |-> body[2], status |-> body[3],
                   content |-> Unescape(SubSeq(body, 5, Len(body) - 1))]
             ELSE JSONDecodeError
    ELSE JSONDecodeError

RECURSIVE Strip(_)
\* line.strip()
Strip(line) ==
    IF line = <<>> THEN line
    ELSE IF Head(line) \in {" ", NL} THEN Strip(Tail(line))
    ELSE IF line[Len(line)] \in {" ", NL} THEN Strip(SubSeq(line, 1, Len(line) - 1))
    ELSE line

RECURSIVE SplitLines(_, _)
\* the lines a text adds to a file whose last line is complete; cur is the
\* line being collected
SplitLines(text, cur) ==
    IF text = <<>> THEN (IF cur = <<>> THEN <<>> ELSE <<cur>>)
    ELSE IF Head(text) = NL THEN <<cur>> \o SplitLines(Tail(text), <<>>)
    ELSE SplitLines(Tail(text), Append(cur, Head(text)))

\* open('w') in place of open('a'): the old text is lost
FileAppend_Truncates(old, text) == SplitLines(text, <<>>)

\* with self._path.open('a') as f: f.write(text)
FileAppend(old, text) == old \o SplitLines(text, <<>>)

\* _write_header_and_system with the two records in the other order
HeaderAndSystemText_SystemFirst(prompt) ==
    Dumps(MessageRecord("system", prompt, "complete")) \o <<NL>> \o Dumps(HeaderRecord) \o <<NL>>

\* _write_header_and_system: the text it writes
HeaderAndSystemText(prompt) ==
    Dumps(HeaderRecord) \o <<NL>> \o Dumps(MessageRecord("system", prompt, "complete")) \o <<NL>>

\* _load_from_file: what one line of the file does to the load
\* ("skip", "append", or the AttributeError of obj.get on a value that is
\* not a dict, which is raised outside the try block)
LineEffect(raw) ==
    LET line == Strip(raw)
        obj  == Loads(line)
    IN  IF line = <<>> THEN "skip"
        ELSE IF obj = JSONDecodeError THEN "skip"
        ELSE IF obj.kind # "dict" THEN "AttributeError"
        ELSE IF obj.type = "message" /\ obj.role \in {"system", "user", "assistant"}
             THEN "append"
             ELSE "skip"

RECURSIVE LoadFromFile(_)
\* _load_from_file: self._messages after the loop over lines that all pass
LoadFromFile(lines) ==
    IF lines = <<>> THEN <<>>
    ELSE (IF LineEffect(Head(lines)) = "append"
          THEN LET obj == Loads(Strip(Head(lines)))
               IN  <<Msg(obj.role, IF "content" \in obj.has THEN obj.content ELSE <<>>)>>
          ELSE <<>>) \o LoadFromFile(Tail(lines))

\* _load_from_file raises on some line
LoadRaises(lines) == \E i \in 1..Len(lines) : LineEffect(lines[i]) = "AttributeError"

\* __init__ on resume with the check of the first message left out
EnsureSystem_Skipped(msgs, prompt) == msgs

\* __init__ on resume: ensure at least one system message in memory
EnsureSystem(msgs, prompt) ==
    IF msgs = <<>> \/ msgs[1].role # "system"
    THEN <<Msg("system", prompt)>> \o msgs
    ELSE msgs

\* lines found in a log file that this program did not just write
PriorLines ==
    { Dumps(HeaderRecord),
      Dumps(MessageRecord("system", <<"o">>, "complete")),
      Dumps(MessageRecord("user", <<"q", NL>>, "complete")),
      Dumps(MessageRecord("assistant", <<"r">>, "partial")),
      <<" ">>,
      <<"{", "message", "user">>,
      <<"{", "}">>,
      <<"[", "]">> }

\* the log files found: none or empty, or one or two lines
PriorLogs == {<<>>} \cup {<<a>> : a \in PriorLines} \cup {<<a, b>> : a, b \in PriorLines}

Prompts == {<<"s">>, <<"t">>}

\* arguments of append_message: role, content, status
AppendInputs ==
    { [role |-> "user",      content |-> <<>>,               status |-> "complete"],
      [role |-> "assistant", content |-> <<"a", NL, Quote>>, status |-> "partial"],
      [role |-> "system",    content |-> <<Back>>,           status |-> "complete"],
      [role |-> "tool",      content |-> <<"x">>,            status |-> "complete"] }

\* the state of the session that is not driven here
sessionVars == <<policy, pc, mode, outgoing, now, start, attempt, yielded_any,
                 partial, innerChunks, produced, outcome, cause, result, innerReturned,
                 delivered, calls, sleeps, lastSleep, attemptAt, failVars,
                 lastRaised, assistantAppends, finalRuns, turns, submitted,
                 prevOk, prevReplied, turnLimit, context, use_enc, ctx_in,
                 ctx_out, ctx_again, ctx_pc, policyVars, webVars, genVars>>

\* No Transcript object yet; root_dir is given or None; the log file of the
\* session id may exist already.
InitTranscript ==
    /\ policy \in TurnPolicies
    /\ TurnIdle
    /\ turnLimit = 0
    /\ context = NoContext
    /\ use_enc = FALSE
    /\ NoDirectCall
    /\ root_dir \in BOOLEAN
    /\ disk \in (IF root_dir THEN PriorLogs ELSE {<<>>})
    /\ t_file = <<>>
    /\ t_records = <<>>
    /\ t_messages = <<>>
    /\ tr_pc = "none"
    /\ system_prompt = <<>>
    /\ expected = <<>>
    /\ log_origin = "none"
    /\ appended = 0
    /\ opened = 0
    /\ view = <<>>
    /\ NoPolicyCall
    /\ NoWeb
    /\ NoGenerators

\* Transcript(system_prompt=prompt, session_id=<the id>, root_dir=...)
Construct(prompt) ==
    /\ tr_pc \in {"none", "open"}
    /\ opened < MaxOpens
    /\ opened' = opened + 1
    /\ system_prompt' = prompt
    /\ view' = <<>>
    /\ IF root_dir
       THEN IF disk # <<>>
            THEN \* the file exists and is not empty: resume
                 /\ IF LoadRaises(disk)
                    THEN /\ tr_pc' = "raised"
                         /\ t_messages' = <<>>
                    ELSE /\ tr_pc' = "open"
                         /\ t_messages' = EnsureSystem(LoadFromFile(disk), prompt)
                 /\ t_file' = <<>>
                 /\ log_origin' = IF log_origin = "none" THEN "found" ELSE log_origin
                 /\ UNCHANGED <<disk, t_records, expected>>
            ELSE \* fresh file with header and system message
                 /\ tr_pc' = "open"
                 /\ t_messages' = <<Msg("system", prompt)>>
                 /\ disk' = FileAppend(disk, HeaderAndSystemText(prompt))
                 /\ t_file' = <<HeaderRecord, MessageRecord("system", prompt, "complete")>>
                 /\ log_origin' = "fresh"
                 /\ expected' = <<Msg("system", prompt)>>
                 /\ UNCHANGED t_records
       ELSE \* pure in-memory
            /\ tr_pc' = "open"
            /\ t_messages' = <<Msg("system", prompt)>>
            /\ t_records' = <<HeaderRecord, MessageRecord("system", prompt, "complete")>>
            /\ log_origin' = "fresh"
            /\ expected' = <<Msg("system", prompt)>>
            /\ UNCHANGED <<disk, t_file>>
    /\ UNCHANGED <<appended, root_dir, sessionVars>>

\* transcript.append_message(role, content, status)
AppendCall(in) ==
    /\ tr_pc = "open"
    /\ appended < MaxAppends
    /\ appended' = appended + 1
    /\ AppendMessage(in.role, in.content, in.status)
    /\ disk' = IF root_dir
               THEN FileAppend(disk, Dumps(MessageRecord(in.role, in.content, in.status))
                                       \o <<NL>>)
               ELSE disk
    /\ expected' = IF log_origin = "fresh" /\ in.role \in {"system", "user", "assistant"}
                   THEN Append(expected, Msg(in.role, in.content))
                   ELSE expected
    /\ UNCHANGED <<tr_pc, system_prompt, log_origin, opened, view, root_dir, sessionVars>>

\* transcript.messages
ReadMessages ==
    /\ tr_pc = "open"
    /\ view # t_messages
    /\ view' = t_messages
    /\ UNCHANGED <<disk, tr_pc, system_prompt, expected, log_origin, appended, opened,
                   root_dir, fileVars, sessionVars>>

NextTranscript ==
    \/ \E prompt \in Prompts : Construct(prompt)
    \/ \E in \in AppendInputs : AppendCall(in)
    \/ ReadMessages

SpecTranscript == InitTranscript /\ [][NextTranscript]_vars

\* ------------------------------------------------------------ ParamPolicy
\* A model name is the sequence of its parts; a compiled pattern is a literal
\* sequence of parts, anchored at the start ("^...") or not; the empty
\* unanchored literal is ".*".
MaxRules == 2    \* rules of one policy file

Keys     == {"foo", "temperature", "top_p"}
\* the order sorted() puts the keys in
KeyOrder == <<"foo", "seed", "temperature", "top_p">>
ValueOf(k) == CASE k = "foo" -> "bar" [] k = "temperature" -> "0.2" [] OTHER -> "0.9"

\* raw_params: the dicts over Keys
RawParams == {[k \in S |-> ValueOf(k)] : S \in SUBSET Keys}

ModelNames == {<<"gpt", "nano", "x">>, <<"o", "gpt", "nano">>, <<"gpt", "mini">>}

NoMessage == [kind |-> "none"]
Custom(text) == [kind |-> "custom", text |-> text]

\* the rules a policy file is made of: when_model_matches, action, params,
\* message
RuleShapes ==
    { [regex |-> [anchored |-> TRUE,  lit |-> <<"gpt", "nano">>],
       params |-> {"temperature", "top_p"}, message |-> Custom("nano: defaults only")],
      [regex |-> [anchored |-> FALSE, lit |-> <<"nano">>],
       params |-> {"temperature"},          message |-> Custom("no temperature")],
      [regex |-> [anchored |-> FALSE, lit |-> <<>>],
       params |-> {"top_p", "seed"},        message |-> Custom("any model")] }

PolicyRules ==
    UNION { { [regex |-> r.regex, action |-> a, params |-> r.params, message |-> m] :
                a \in {"allow", "drop", "reject"}, m \in {NoMessage, r.message} } :
            r \in RuleShapes }

RuleLists == UNION {[1..n -> PolicyRules] : n \in 0..MaxRules}

\* regex.fullmatch(model) in place of regex.search(model)
Search_FullMatch(regex, model) == model = regex.lit

\* r.regex.search(model)
Search(regex, model) ==
    \E i \in 1..(Len(model) - Len(regex.lit) + 1) :
       /\ regex.anchored => i = 1
       /\ SubSeq(model, i, i + Len(regex.lit) - 1) = regex.lit

\* the last matching rule in place of the first
FirstMatch_Last(rules, model) ==
    LET hits == {i \in 1..Len(rules) : Search(rules[i].regex, model)}
    IN  IF hits = {} THEN 0 ELSE CHOOSE i \in hits : \A j \in hits : j <= i

\* next((r for r in self.rules if r.regex.search(model)), None): the index of
\* that rule, 0 for None
FirstMatch(rules, model) ==
    LET hits == {i \in 1..Len(rules) : Search(rules[i].regex, model)}
    IN  IF hits = {} THEN 0 ELSE CHOOSE i \in hits : \A j \in hits : i <= j

\* every listed key, present or not
Present_AllListed(params, effective) == SelectSeq(KeyOrder, LAMBDA k : k \in params)

\* sorted([k for k in params if k in effective])
Present(params, effective) ==
    SelectSeq(KeyOrder, LAMBDA k : k \in params /\ k \in DOMAIN effective)

\* the elements of a sequence
Elems(q) == {q[i] : i \in 1..Len(q)}

\* effective after effective.pop(k, None) for every k of ks
Pop(effective, ks) == [k \in (DOMAIN effective) \ ks |-> effective[k]]

\* the text evaluate builds when the rule has no message
Generated(what, model, keys) ==
    [kind |-> "generated", what |-> what, model |-> model, keys |-> keys]

\* rule.message or f"Dropping unsupported params for model '{model}': {dropped}"
DropWarning(rule, model, dropped) ==
    IF rule.message # NoMessage THEN rule.message
    ELSE Generated("Dropping unsupported params", model, dropped)

\* the generated text whatever the rule's message
RejectMessage_Generated(rule, model, bad) == Generated("Unsupported params", model, bad)

\* rule.message or f"Unsupported params for model '{model}': {bad}"
RejectMessage(rule, model, bad) ==
    IF rule.message # NoMessage THEN rule.message
    ELSE Generated("Unsupported params", model, bad)

\* what evaluate gives back when it returns
Returned(effective, warnings) ==
    [outcome |-> "returned", effective |-> effective, warnings |-> warnings,
     error |-> NoMessage]

\* evaluate raising ValueError(msg)
RaisedValueError(msg) ==
    [outcome |-> "raised", effective |-> <<>>, warnings |-> <<>>, error |-> msg]

\* evaluate with an allow rule pruning the params to those it lists
Evaluate_AllowPrunes(rules, model, raw_params) ==
    LET i == FirstMatch(rules, model)
    IN  IF i > 0 /\ rules[i].action = "allow"
        THEN Returned(Pop(raw_params, (DOMAIN raw_params) \ rules[i].params), <<>>)
        ELSE Returned(raw_params, <<>>)

\* ParamPolicy.evaluate(model, raw_params)
Evaluate(rules, model, raw_params) ==
    LET i      == FirstMatch(rules, model)
        action == IF i > 0 THEN rules[i].action ELSE "allow"
        params == IF i > 0 THEN rules[i].params ELSE {}
        listed == Present(params, raw_params)
    IN  IF action = "drop"
        THEN Returned(Pop(raw_params, Elems(listed)),
                      IF listed # <<>> THEN <<DropWarning(rules[i], model, listed)>>
                      ELSE <<>>)
        ELSE IF action = "reject" /\ listed # <<>>
        THEN RaisedValueError(RejectMessage(rules[i], model, listed))
        ELSE Returned(raw_params, <<>>)

\* build_app mapping the ValueError to a TimeoutError
MapPolicyError_Timeout(msg) ==
    [cls |-> "TimeoutError", status_code |-> 0, retry_after |-> ""]

\* build_app: raise ProviderClientError(str(e))
MapPolicyError(msg) ==
    [cls |-> "ProviderClientError", status_code |-> 0, retry_after |-> ""]

\* a ParamPolicy loaded from a policy file, if there is one, and the model
\* name and params of the configuration
InitPolicy ==
    /\ IdleSession
    /\ context = NoContext
    /\ use_enc = FALSE
    /\ NoDirectCall
    /\ NoLogText
    /\ pp_rules \in RuleLists
    /\ pp_model \in ModelNames
    /\ pp_raw \in RawParams
    /\ pp_exists \in BOOLEAN
    /\ pp_pc = "ready"
    /\ pp_result = <<>>
    /\ built = {}
    /\ boot_error = NoExc
    /\ adapter_params = <<>>
    /\ boot_warnings = <<>>
    /\ NoWeb
    /\ NoGenerators

\* everything but the state of the policy evaluation
nonPolicyVars == <<policy, root_dir, fileVars, pc, mode, outgoing, now, start,
                   attempt, yielded_any, partial, innerChunks, produced, outcome, cause,
                   result, innerReturned, delivered, calls, sleeps, lastSleep,
                   attemptAt, failVars, lastRaised, assistantAppends, finalRuns,
                   turns, submitted, prevOk, prevReplied, turnLimit, context, use_enc,
                   ctx_in, ctx_out, ctx_again, ctx_pc, disk, tr_pc, system_prompt,
                   expected, log_origin, appended, opened, view, webVars, genVars>>

\* evaluate popping the listed keys from the dict it was given
RawParamsAfter_InPlace(rules, model, raw_params) ==
    LET res == Evaluate(rules, model, raw_params)
    IN  IF res.outcome = "returned" THEN res.effective ELSE raw_params

\* the dict handed to evaluate as the call leaves it: the keys are popped
\* from effective = dict(raw_params or {}), a copy
RawParamsAfter(rules, model, raw_params) == raw_params

\* build_app: the entries of raw_params whose key is not in effective_params
Dropped(raw_params, effective_params) ==
    [k \in (DOMAIN raw_params) \ (DOMAIN effective_params) |-> raw_params[k]]

\* build_app: the policy_drop entry of warnings
PolicyDrop(model, dropped) ==
    [type |-> "policy_drop", model |-> model, dropped |-> dropped]

\* effective, warnings = policy.evaluate(model, raw_params)
EvaluateCall ==
    /\ pp_pc = "ready"
    /\ pp_exists
    /\ pp_result' = Evaluate(pp_rules, pp_model, pp_raw)
    /\ pp_raw' = RawParamsAfter(pp_rules, pp_model, pp_raw)
    /\ pp_pc' = pp_result'.outcome
    /\ UNCHANGED <<pp_rules, pp_model, pp_exists, built, boot_error,
                   adapter_params, boot_warnings, nonPolicyVars>>

\* build_app(config_path): the policy, then the adapter, the ResilientProvider
\* and the Transcript
BuildApp ==
    /\ pp_pc = "ready"
    /\ IF pp_exists
       THEN LET res == Evaluate(pp_rules, pp_model, pp_raw)
                raw_params == RawParamsAfter(pp_rules, pp_model, pp_raw)
            IN  /\ pp_result' = res
                /\ pp_raw' = raw_params
                /\ IF res.outcome = "raised"
                   THEN /\ boot_error' = MapPolicyError(res.error)
                        /\ built' = {}
                        /\ adapter_params' = <<>>
                        /\ boot_warnings' = <<>>
                        /\ pp_pc' = "aborted"
                   ELSE LET dropped == Dropped(raw_params, res.effective)
                        IN  /\ boot_error' = NoExc
                            /\ built' = {"adapter", "ResilientProvider", "Transcript"}
                            /\ adapter_params' = res.effective
                            /\ boot_warnings' =
                                  IF DOMAIN dropped # {}
                                  THEN <<PolicyDrop(pp_model, dropped)>>
                                  ELSE <<>>
                            /\ pp_pc' = "built"
       ELSE /\ pp_result' = <<>>
            /\ boot_error' = NoExc
            /\ built' = {"adapter", "ResilientProvider", "Transcript"}
            /\ adapter_params' = pp_raw
            /\ boot_warnings' = <<>>
            /\ pp_pc' = "built"
            /\ UNCHANGED pp_raw
    /\ UNCHANGED <<pp_rules, pp_model, pp_exists, nonPolicyVars>>

NextPolicy == EvaluateCall \/ BuildApp

SpecPolicy == InitPolicy /\ [][NextPolicy]_vars

\* ------------------------------------------------------ web application
\* The session registry of create_app. Every request runs on a thread of its
\* own; a step is one statement on app.state.sessions or app.state.lock, so
\* that the requests interleave wherever a thread switch can happen.
MaxRequests == 2    \* requests in flight
MaxSeconds  == 2    \* seconds the wall clock runs through

Requests == 1..MaxRequests
\* no thread holds the lock; no ChatSession (None)
NoRequest == 0
\* session_id of a ChatRequest left out (None or "")
NoId == 0
\* the wall clock advances in ticks shorter than a second
TicksPerSecond == 2
\* strftime('%Y%m%d-%H%M%S') of the wall clock: the second, without the rest
StrfTime(tick) == tick \div TicksPerSecond
SessionIds == 1..MaxSeconds
Endpoints == {"api_session", "api_chat", "api_stream"}

\* a ChatSession, named by the request that constructed it
ChatSessionOf(t) == t

\* which of the two functions on the registry an endpoint calls
Calls(ep) == IF ep = "api_session" THEN "_create_session" ELSE "_get_session"

\* a request and its locals: the function it called, req.session_id, new_id
\* and session
Arrived(ep, sid, at) ==
    [pc |-> at, fn |-> IF ep = "none" THEN "none" ELSE Calls(ep),
     session_id |-> sid, new_id |-> NoId, session |-> NoRequest]

\* the session id a finished request answers with
AnsweredId(r) == IF r.new_id # NoId THEN r.new_id ELSE r.session_id

\* app.state.sessions.get(session_id)
Get(d, id) == IF id \in DOMAIN d THEN d[id] ELSE NoRequest

\* d[id] = chat_session
SetItem(d, id, v) == [k \in (DOMAIN d) \cup {id} |-> IF k = id THEN v ELSE d[k]]

\* an access request t makes to app.state.sessions at a source line
Access(t, op, line) == [op |-> op, line |-> line, locked |-> lock = t]

\* create_app: app.state.sessions = {}, app.state.lock = threading.Lock()
InitWeb ==
    /\ IdleSession
    /\ context = NoContext
    /\ use_enc = FALSE
    /\ NoDirectCall
    /\ NoLogText
    /\ NoPolicyCall
    /\ sessions = <<>>
    /\ lock = NoRequest
    /\ reqs = [t \in Requests |-> Arrived("none", NoId, "none")]
    /\ utcnow = TicksPerSecond
    /\ accesses = {}
    /\ NoGenerators

nonWebVars == <<policy, root_dir, fileVars, pc, mode, outgoing, now, start,
                attempt, yielded_any, partial, innerChunks, produced, outcome, cause,
                result, innerReturned, delivered, calls, sleeps, lastSleep,
                attemptAt, failVars, lastRaised, assistantAppends, finalRuns,
                turns, submitted, prevOk, prevReplied, turnLimit, context, use_enc,
                ctx_in, ctx_out, ctx_again, ctx_pc, disk, tr_pc, system_prompt,
                expected, log_origin, appended, opened, view, policyVars, genVars>>

\* a request arrives: api_session calls _create_session; api_chat and
\* api_stream answer 400 to an empty message and call _get_session otherwise,
\* which calls _create_session when no session id is given
Arrive(t, ep, sid, empty) ==
    /\ reqs[t].pc = "none"
    /\ reqs' = [reqs EXCEPT ![t] =
                  CASE ep = "api_session" -> Arrived(ep, NoId, "create")
                    [] empty              -> Arrived(ep, sid, "done")
                    [] sid = NoId         -> Arrived(ep, sid, "create")
                    [] OTHER              -> Arrived(ep, sid, "get_enter")]
    /\ UNCHANGED <<sessions, lock, utcnow, accesses, nonWebVars>>

\* _get_session: with app.state.lock (entered)
GetEnter(t) ==
    /\ reqs[t].pc = "get_enter"
    /\ lock = NoRequest
    /\ lock' = t
    /\ reqs' = [reqs EXCEPT ![t].pc = "get"]
    /\ UNCHANGED <<sessions, utcnow, accesses, nonWebVars>>

\* _get_session: session = app.state.sessions.get(session_id)
GetSession(t) ==
    /\ reqs[t].pc = "get"
    /\ accesses' = accesses \cup {Access(t, "get", 105)}
    /\ reqs' = [reqs EXCEPT ![t].session = Get(sessions, reqs[t].session_id),
                            ![t].pc = "get_exit"]
    /\ UNCHANGED <<sessions, lock, utcnow, nonWebVars>>

\* _get_session: the with block is left; a session found is returned with
\* its id, an unknown id goes on to _create_session
GetExit(t) ==
    /\ reqs[t].pc = "get_exit"
    /\ lock' = NoRequest
    /\ reqs' = IF reqs[t].session = NoRequest
               THEN [reqs EXCEPT ![t].pc = "create"]
               ELSE [reqs EXCEPT ![t].pc = "done"]
    /\ UNCHANGED <<sessions, utcnow, accesses, nonWebVars>>

\* _create_session: Transcript(...) takes its session id from the wall clock,
\* and ChatSession(...) is constructed on it
Create(t) ==
    /\ reqs[t].pc = "create"
    /\ reqs' = [reqs EXCEPT ![t].new_id = StrfTime(utcnow),
                            ![t].pc = "put_enter"]
    /\ UNCHANGED <<sessions, lock, utcnow, accesses, nonWebVars>>

\* _create_session: with app.state.lock (entered)
PutEnter(t) ==
    /\ reqs[t].pc = "put_enter"
    /\ lock = NoRequest
    /\ lock' = t
    /\ reqs' = [reqs EXCEPT ![t].pc = "put"]
    /\ UNCHANGED <<sessions, utcnow, accesses, nonWebVars>>

\* _create_session: app.state.sessions[transcript.session_id] = chat_session
Put(t) ==
    /\ reqs[t].pc = "put"
    /\ accesses' = accesses \cup {Access(t, "setitem", 96)}
    /\ sessions' = SetItem(sessions, reqs[t].new_id, ChatSessionOf(t))
    /\ reqs' = [reqs EXCEPT ![t].pc = "put_exit"]
    /\ UNCHANGED <<lock, utcnow, nonWebVars>>

\* _create_session: the with block is left and the id returned, to
\* api_session, which answers with it, or to _get_session
PutExit(t) ==
    /\ reqs[t].pc = "put_exit"
    /\ lock' = NoRequest
    /\ reqs' = IF reqs[t].fn = "_create_session"
               THEN [reqs EXCEPT ![t].pc = "done"]
               ELSE [reqs EXCEPT ![t].pc = "reread"]
    /\ UNCHANGED <<sessions, utcnow, accesses, nonWebVars>>

\* _get_session: return new_id, app.state.sessions[new_id]
Reread(t) ==
    /\ reqs[t].pc = "reread"
    /\ accesses' = accesses \cup
          {Access(t, "getitem", IF reqs[t].session_id = NoId THEN 102 ELSE 108)}
    /\ reqs' = [reqs EXCEPT ![t].session = sessions[reqs[t].new_id],
                            ![t].pc = "done"]
    /\ UNCHANGED <<sessions, lock, utcnow, nonWebVars>>

\* the wall clock advances
Tick ==
    /\ StrfTime(utcnow + 1) <= MaxSeconds
    /\ utcnow' = utcnow + 1
    /\ UNCHANGED <<sessions, lock, reqs, accesses, nonWebVars>>

NextWeb ==
    \/ \E t \in Requests, ep \in Endpoints, sid \in {NoId} \cup SessionIds,
          empty \in BOOLEAN : Arrive(t, ep, sid, empty)
    \/ \E t \in Requests : GetEnter(t)
    \/ \E t \in Requests : GetSession(t)
    \/ \E t \in Requests : GetExit(t)
    \/ \E t \in Requests : Create(t)
    \/ \E t \in Requests : PutEnter(t)
    \/ \E t \in Requests : Put(t)
    \/ \E t \in Requests : PutExit(t)
    \/ \E t \in Requests : Reread(t)
    \/ Tick

SpecWeb == InitWeb /\ [][NextWeb]_vars

\* --------------------------------------- one session, generators kept open
\* A caller of one ChatSession, on one thread, that starts turns by run_turn
\* and run_turn_stream and reads or closes the generators it holds in any
\* order.  What ResilientProvider does inside a call is left out: a call of
\* chat returns or raises, a stream yields, ends or raises.

\* a turn: the entry point it was started by, where it stands, and the
\* partial list of a streaming turn
TurnOf(kind, state) == [kind |-> kind, state |-> state, partial |-> <<>>]

\* run_turn has not returned yet: the caller is inside it
InRunTurn == \E g \in 1..Len(gens) : gens[g].state = "calling"

\* a fresh in-memory Transcript and a ChatSession without context policy
InitGens ==
    /\ IdleSession
    /\ context = NoContext
    /\ use_enc = FALSE
    /\ NoDirectCall
    /\ NoLogText
    /\ NoPolicyCall
    /\ NoWeb
    /\ gens = <<>>
    /\ msg_turn = <<0>>

nonGenVars == <<policy, root_dir, pc, mode, outgoing, now, start, attempt,
                yielded_any, partial, innerChunks, produced, outcome, cause,
                result, innerReturned, delivered, calls, sleeps, lastSleep,
                attemptAt, failVars, lastRaised, assistantAppends, finalRuns,
                turns, submitted, prevOk, prevReplied, turnLimit, context, use_enc,
                ctx_in, ctx_out, ctx_again, ctx_pc, disk, tr_pc, system_prompt,
                expected, log_origin, appended, opened, view, policyVars, webVars>>

\* run_turn and run_turn_stream: self.transcript.append_message("user", ...)
GenTurnStarts(user_text, kind, state) ==
    /\ ~InRunTurn
    /\ Len(gens) < MaxTurns
    /\ AppendMessage("user", user_text, "complete")
    /\ gens' = Append(gens, TurnOf(kind, state))
    /\ msg_turn' = Append(msg_turn, Len(gens) + 1)
    /\ UNCHANGED nonGenVars

\* run_turn up to self.model.chat(messages)
GenRunTurn(user_text) == GenTurnStarts(user_text, "chat", "calling")

\* run_turn: chat returns and the assistant message is appended
GenChatReturns(g, content) ==
    /\ gens[g].state = "calling"
    /\ AppendMessage("assistant", content, "complete")
    /\ msg_turn' = Append(msg_turn, g)
    /\ gens' = [gens EXCEPT ![g].state = "done"]
    /\ UNCHANGED nonGenVars

\* run_turn: chat raises and run_turn with it
GenChatRaises(g) ==
    /\ gens[g].state = "calling"
    /\ gens' = [gens EXCEPT ![g].state = "done"]
    /\ UNCHANGED <<fileVars, msg_turn, nonGenVars>>

\* run_turn_stream: the generator is returned, none of its code has run
GenRunTurnStream(user_text) == GenTurnStarts(user_text, "stream", "created")

\* the finally block of gen of the turn g
GenFinalize(g) ==
    IF gens[g].partial # <<>>
    THEN /\ AppendMessage("assistant", FinalContent(gens[g].partial),
                          FinalStatus("done"))
         /\ msg_turn' = Append(msg_turn, g)
    ELSE UNCHANGED <<fileVars, msg_turn>>

\* the caller reads the generator of turn g and the stream yields a piece
GenYields(g, piece) ==
    /\ ~InRunTurn
    /\ gens[g].kind = "stream"
    /\ gens[g].state \in {"created", "suspended"}
    /\ Len(gens[g].partial) < MaxChunks
    /\ gens' = [gens EXCEPT ![g].state = "suspended",
                            ![g].partial = Append(gens[g].partial, piece)]
    /\ UNCHANGED <<fileVars, msg_turn, nonGenVars>>

\* the caller reads the generator of turn g and the stream ends or raises
GenEnds(g) ==
    /\ ~InRunTurn
    /\ gens[g].kind = "stream"
    /\ gens[g].state \in {"created", "suspended"}
    /\ GenFinalize(g)
    /\ gens' = [gens EXCEPT ![g].state = "done"]
    /\ UNCHANGED nonGenVars

\* the caller closes the generator of turn g, or drops its last reference to
\* it; a generator that was never started runs none of its code
GenClose(g) ==
    /\ ~InRunTurn
    /\ gens[g].kind = "stream"
    /\ \/ /\ gens[g].state = "suspended"
          /\ GenFinalize(g)
       \/ /\ gens[g].state = "created"
          /\ UNCHANGED <<fileVars, msg_turn>>
    /\ gens' = [gens EXCEPT ![g].state = "done"]
    /\ UNCHANGED nonGenVars

NextGens ==
    \/ \E u \in TurnTexts : GenRunTurn(u)
    \/ \E g \in 1..Len(gens), c \in TurnReplies : GenChatReturns(g, c)
    \/ \E g \in 1..Len(gens) : GenChatRaises(g)
    \/ \E u \in TurnTexts : GenRunTurnStream(u)
    \/ \E g \in 1..Len(gens), p \in TurnPieces : GenYields(g, p)
    \/ \E g \in 1..Len(gens) : GenEnds(g)
    \/ \E g \in 1..Len(gens) : GenClose(g)

SpecGens == InitGens /\ [][NextGens]_vars

\* ================================================================ claims
TurnOver == pc = "idle" /\ outcome # "none"

LastRecord == Records[Len(Records)]

\* C1: chat with max_retries = N whose every inner call raises a retryable
\* error while elapsed stays below total_timeout makes exactly N+1 inner calls
\* and N sleeps and then raises a terminal error caused by the last failure;
\* when the inner call succeeds after k failures, chat returns its result
\* unchanged after exactly k+1 calls and k sleeps, with k <= N.
C1_ChatAttemptsAndSleeps ==
    mode = "chat" =>
        /\ (/\ outcome = "failed_after_retries"
            /\ allRetryable
            /\ fails = calls
            /\ lastElapsed < policy.total_timeout)
           => /\ calls = policy.max_retries + 1
              /\ sleeps = policy.max_retries
              /\ cause = lastExc
        /\ outcome = "ok"
           => /\ calls = fails + 1
              /\ sleeps = fails
              /\ fails <= policy.max_retries
              /\ result = innerReturned
              /\ t_messages[Len(t_messages)] = Msg("assistant", innerReturned)

C1_Witness ==
    /\ mode = "chat"
    /\ outcome = "failed_after_retries"
    /\ allRetryable
    /\ lastElapsed < policy.total_timeout
    /\ policy.max_retries = MaxRetriesBound
    /\ calls = MaxRetriesBound + 1

\* C2: once chat_stream has yielded a chunk, a failure of the inner stream is
\* never retried: the read raises the terminal "failed mid-reply" error caused
\* by that failure, with no further inner invocation, sleep or chunk.
C2_NoRetryAfterFirstChunk ==
    /\ [][(pc = "streaming" /\ yielded_any /\ fails' = fails + 1)
            => /\ outcome' = "stream_failed_mid_reply"
               /\ cause' = lastExc'
               /\ pc' = "idle"
               /\ calls' = calls
               /\ sleeps' = sleeps
               /\ delivered' = delivered]_vars
    /\ [](outcome = "stream_failed_mid_reply" => pc = "idle" /\ yielded_any)

C2_Witness ==
    /\ outcome = "stream_failed_mid_reply"
    /\ ShouldRetry(cause)
    /\ attempt < policy.max_retries
    /\ lastElapsed < policy.total_timeout

\* C3: a failure of chat_stream before any chunk was yielded is decided like
\* chat's: retried after one backoff sleep with a fresh inner stream when the
\* error is retryable, attempt < max_retries and elapsed < total_timeout, and
\* terminal otherwise; at most max_retries + 1 inner streams are started.
C3_RetryBeforeFirstChunk ==
    /\ [][(pc = "streaming" /\ ~yielded_any /\ fails' = fails + 1)
            => IF /\ ShouldRetry(lastExc')
                  /\ attempt < policy.max_retries
                  /\ lastElapsed' < policy.total_timeout
               THEN pc' = "backoff" /\ outcome' = "none" /\ calls' = calls
               ELSE /\ outcome' = "stream_failed_after_retries"
                    /\ cause' = lastExc'
                    /\ pc' = "idle"
                    /\ calls' = calls
                    /\ sleeps' = sleeps]_vars
    /\ [][(mode = "stream" /\ pc = "backoff" /\ pc' = "streaming")
            => /\ calls' = calls + 1
               /\ sleeps' = sleeps + 1
               /\ attempt' = attempt + 1
               /\ innerChunks' = 0
               /\ delivered' = <<>>]_vars
    /\ [](mode = "stream" => calls <= policy.max_retries + 1)

C3_Witness ==
    /\ mode = "stream"
    /\ pc = "suspended"
    /\ calls = MaxRetriesBound + 1
    /\ sleeps = MaxRetriesBound

\* C4: an error of the inner provider that is a ClientError, or is neither in
\* the retryable exception set nor carries a retryable status code, ends chat
\* at once: a first failure of that kind leaves exactly one inner call and no
\* sleep, whatever max_retries and total_timeout are.
C4_NonRetryableFailsAtOnce ==
    (/\ mode = "chat"
     /\ fails >= 1
     /\ \/ lastExc.cls = "ProviderClientError"
        \/ /\ ~IsInstance(lastExc, retry_exceptions \cup OPENAI_ERRORS)
           /\ lastExc.status_code \notin retry_status_codes)
    => /\ outcome = "failed_after_retries"
       /\ pc = "idle"
       /\ cause = lastExc
       /\ calls = fails
       /\ sleeps = fails - 1
       /\ fails = 1 => (calls = 1 /\ sleeps = 0)

C4_Witness ==
    /\ mode = "chat"
    /\ fails = 1
    /\ lastExc.cls = "ProviderClientError"
    /\ policy.max_retries >= 1
    /\ lastElapsed < policy.total_timeout
    /\ calls = 1

\* C5: a failure the adapter classified as ProviderTransientError is retried
\* while attempts remain and the time budget is not exhausted, in chat and in
\* chat_stream before the first chunk: it ends the call only after exhaustion.
C5_TransientErrorIsRetried ==
    (/\ outcome \in {"failed_after_retries", "stream_failed_after_retries"}
     /\ cause.cls = "ProviderTransientError")
    => \/ attempt >= policy.max_retries
       \/ lastElapsed >= policy.total_timeout

\* C6: when the first attempt of chat fails with a retryable error and
\* elapsed >= total_timeout, exactly one attempt occurs and the call fails
\* terminally with no sleep, regardless of max_retries.
C6_TimeoutAfterFirstFailure ==
    (/\ mode = "chat"
     /\ fails = 1
     /\ ShouldRetry(lastExc)
     /\ lastElapsed >= policy.total_timeout)
    => /\ outcome = "failed_after_retries"
       /\ pc = "idle"
       /\ cause = lastExc
       /\ calls = 1
       /\ sleeps = 0

C6_Witness ==
    /\ mode = "chat"
    /\ fails = 1
    /\ ShouldRetry(lastExc)
    /\ lastElapsed >= policy.total_timeout
    /\ policy.max_retries = MaxRetriesBound
    /\ outcome = "failed_after_retries"

\* C7: no new attempt of chat, or of chat_stream before its first chunk, is
\* started once the time elapsed since the call started has reached
\* total_timeout.
C7_NoAttemptAfterBudget ==
    calls >= 2 => attemptAt < policy.total_timeout

\* C8: a KeyboardInterrupt raised by the inner chat, by the inner stream
\* (before or after the first chunk) or by the backoff sleep leaves
\* ResilientProvider as that signal: it is not wrapped in a terminal error,
\* not counted as a failure, and no attempt or sleep follows it.
C8_InterruptPropagates ==
    /\ [](lastRaised.cls = "KeyboardInterrupt"
            => /\ outcome = "KeyboardInterrupt"
               /\ pc = "idle"
               /\ cause = NoExc)
    /\ [][(lastRaised'.cls = "KeyboardInterrupt" /\ lastRaised.cls # "KeyboardInterrupt")
            => /\ fails' = fails
               /\ calls' = calls
               /\ attempt' = attempt
               /\ (pc # "backoff" => sleeps' = sleeps)]_vars

C8_Witness ==
    /\ lastRaised.cls = "KeyboardInterrupt"
    /\ mode = "stream"
    /\ yielded_any
    /\ calls >= 2
    /\ outcome = "KeyboardInterrupt"

\* C9 as claimed: in every streaming turn the finalization runs exactly once,
\* however the stream ends.
C9_FinalizationExactlyOnce ==
    (mode = "stream" /\ TurnOver) => finalRuns = 1

\* C9 as amended: the finalization of a streaming turn runs exactly once when
\* the generator was started and not at all when it is closed before its
\* first read, and never before the stream is over; at most one assistant
\* message is appended per turn, holding the in-order concatenation of
\* exactly the chunks delivered, and none when no chunk was delivered.
C9_FinalizationOncePerStartedStream ==
    mode = "stream" =>
        /\ ~TurnOver => (finalRuns = 0 /\ assistantAppends = 0)
        /\ TurnOver =>
            /\ finalRuns = (IF calls >= 1 THEN 1 ELSE 0)
            /\ assistantAppends = (IF delivered # <<>> THEN 1 ELSE 0)
            /\ delivered # <<>> =>
                /\ t_messages[Len(t_messages)] = Msg("assistant", Join(delivered))
                /\ LastRecord.role = "assistant"
                /\ LastRecord.content = Join(delivered)
            /\ delivered = <<>> => t_messages[Len(t_messages)].role = "user"

C9_Witness ==
    /\ mode = "stream"
    /\ TurnOver
    /\ outcome = "closed"
    /\ Len(delivered) = 2
    /\ delivered[1] # delivered[2]
    /\ assistantAppends = 1
    /\ finalRuns = 1

\* C10: a streaming turn that is cancelled by the consumer or fails after at
\* least one chunk appends the accumulated text with status partial; status
\* complete is written only for a turn whose stream ended normally.
C10_PartialStatusOnInterruptedStream ==
    (mode = "stream" /\ TurnOver /\ assistantAppends = 1)
    => LastRecord.status = (IF outcome = "ok" THEN "complete" ELSE "partial")

\* ------------------------------------------------------------------ C11
TurnInFlight == pc # "idle"

\* the transcript is the system message and one user/assistant pair per turn
AlternatingPairs ==
    /\ Len(t_messages) = 1 + 2 * turns
    /\ t_messages[1] = Msg("system", SystemPrompt)
    /\ \A i \in 1..turns :
          /\ t_messages[2 * i] = Msg("user", submitted[i])
          /\ t_messages[2 * i + 1].role = "assistant"

\* a step that changes the message list appends one message: the user text
\* when a turn starts, the assistant text when a provider call that was made
\* ends the turn
AppendStep ==
    t_messages' # t_messages =>
       /\ Len(t_messages') = Len(t_messages) + 1
       /\ SubSeq(t_messages', 1, Len(t_messages)) = t_messages
       /\ LET m == t_messages'[Len(t_messages')]
          IN  \/ /\ turns' = turns + 1
                 /\ pc = "idle"
                 /\ m = Msg("user", submitted'[turns'])
              \/ /\ turns' = turns
                 /\ m.role = "assistant"
                 /\ calls >= 1
                 /\ pc # "idle" /\ pc' = "idle"

\* C11 as stated, its last part: after any sequence of turns that ended without
\* an error, the transcript is the system message followed by alternating
\* user/assistant pairs in turn order.
C11_AlternatingAfterSuccessfulTurns ==
    (prevOk /\ (turns = 0 \/ (pc = "idle" /\ outcome = "ok"))) => AlternatingPairs

\* C11, amended: appends happen in submission order; while the provider call
\* of a turn is pending the newest message is that turn's user message and no
\* assistant message of the turn exists; an assistant message is appended
\* only by the step that ends a provider call; and after any sequence of
\* turns that each ended without an error and produced a reply (a stream of
\* at least one chunk) the transcript is the system message followed by
\* alternating user/assistant pairs in turn order.
C11_AppendsInTurnOrder ==
    /\ [](TurnInFlight =>
            /\ t_messages[Len(t_messages)] = Msg("user", submitted[turns])
            /\ assistantAppends = 0)
    /\ [][AppendStep]_vars
    /\ []((prevReplied /\ (turns = 0 \/ (pc = "idle" /\ outcome = "ok" /\ assistantAppends = 1)))
            => AlternatingPairs)

C11_Witness ==
    /\ prevReplied /\ turns = 2 /\ pc = "idle" /\ outcome = "ok"
    /\ assistantAppends = 1 /\ mode = "stream"
    /\ Len(t_messages) = 5
    /\ submitted[1] # submitted[2]

\* ------------------------------------------------------------------ C12
TerminalFailures ==
    {"failed_after_retries", "stream_failed_after_retries", "stream_failed_mid_reply"}

\* C12: the step at which a turn ends in a terminal provider failure either
\* appends nothing to the record stream or, when the stream had delivered at
\* least one chunk, appends one assistant record of status partial holding the
\* accumulated text; the records written before stay as they were.
C12_FailedTurnLeavesPartialRecord ==
    [][(pc # "idle" /\ pc' = "idle" /\ outcome' \in TerminalFailures) =>
          IF delivered' = <<>>
          THEN Records' = Records
          ELSE Records' = Append(Records,
                                 MessageRecord("assistant", Join(delivered'), "partial"))]_vars

\* ------------------------------------------------------------------ C18
\* the list handed to apply exceeds the budget while the system message and
\* the last always_keep_last_n body messages fit
OverBudgetTailFits ==
    /\ context # NoContext
    /\ TurnInFlight
    /\ t_messages[1].role = "system"
    /\ CountMessages(t_messages) > Target(context)
    /\ context.always_keep_last_n <= Len(t_messages) - 1
    /\ CountMessages(<<t_messages[1]>> \o
                     SubSeq(t_messages, Len(t_messages) - context.always_keep_last_n + 1,
                            Len(t_messages))) <= Target(context)

\* C18: in that case the list a turn (run_turn or run_turn_stream) hands to
\* the provider starts with the system message and ends with exactly the last
\* always_keep_last_n body messages, in order.
C18_TrimmedListKeepsSystemAndTail ==
    OverBudgetTailFits =>
       /\ outgoing # <<>>
       /\ outgoing[1] = t_messages[1]
       /\ Len(outgoing) >= 1 + context.always_keep_last_n
       /\ SubSeq(outgoing, Len(outgoing) - context.always_keep_last_n + 1, Len(outgoing))
            = SubSeq(t_messages, Len(t_messages) - context.always_keep_last_n + 1,
                     Len(t_messages))

C18_Witness ==
    /\ OverBudgetTailFits
    /\ mode = "stream"
    /\ context.always_keep_last_n = 2
    /\ Len(outgoing) < Len(t_messages)

\* ------------------------------------------------------------------ C19
\* a is a contiguous suffix of b
IsSuffix(a, b) ==
    /\ Len(a) <= Len(b)
    /\ a = SubSeq(b, Len(b) - Len(a) + 1, Len(b))

\* C19: what apply returns is the leading system message of its input, when
\* there is one, followed by a contiguous suffix of the remaining input
\* messages in their order.
C19_ResultIsSystemPlusSuffix ==
    ctx_pc = "done" =>
       IF ctx_in # <<>> /\ ctx_in[1].role = "system"
       THEN /\ ctx_out # <<>>
            /\ ctx_out[1] = ctx_in[1]
            /\ IsSuffix(Tail(ctx_out), Tail(ctx_in))
       ELSE IsSuffix(ctx_out, ctx_in)

C19_Witness ==
    /\ ctx_pc = "done"
    /\ ctx_in # <<>>
    /\ ctx_in[1].role = "system"
    /\ Len(ctx_out) > 1
    /\ Len(ctx_out) < Len(ctx_in)
    /\ context.always_keep_last_n = 1
    /\ Len(ctx_out) > 2

\* ------------------------------------------------------------------ C20
\* C20: a session without a context policy hands the provider the whole
\* message list of the transcript, which ends with the user message the turn
\* has just appended.
C20_NoPolicySendsFullHistory ==
    (context = NoContext /\ TurnInFlight) =>
       /\ outgoing = t_messages
       /\ outgoing[Len(outgoing)] = Msg("user", submitted[turns])

C20_Witness ==
    /\ context = NoContext
    /\ pc = "calling"
    /\ turns = 2
    /\ Len(outgoing) = 4
    /\ outgoing[3].role = "assistant"

\* ------------------------------------------------------------------ C13
\* C13: on a durable log made by a fresh Transcript, every Transcript object
\* constructed later with the same session id and root, whatever system
\* prompt it is given, has as messages the original system message followed
\* by the messages written with append_message, in order, partial ones
\* included.
C13_ResumeReproducesMessages ==
    (root_dir /\ log_origin = "fresh") =>
       /\ tr_pc = "open"
       /\ t_messages = expected

C13_Witness ==
    /\ root_dir /\ log_origin = "fresh" /\ tr_pc = "open"
    /\ opened = 2 /\ appended = 2
    /\ t_file = <<>>
    /\ system_prompt # t_messages[1].content
    /\ Len(t_messages) = 3
    /\ t_messages[2] = Msg("assistant", <<"a", NL, Quote>>)
    /\ t_messages[3] = Msg("system", <<Back>>)

\* ------------------------------------------------------------------ C14
\* C14: a log made by a fresh durable Transcript holds exactly two records
\* before anything is appended, and at all times begins with the header
\* record followed by the complete system message record.
C14_FreshLogBeginsWithHeaderAndSystem ==
    (root_dir /\ log_origin = "fresh") =>
       /\ Len(disk) >= 2
       /\ appended = 0 => Len(disk) = 2
       /\ Loads(disk[1]).kind = "dict" /\ Loads(disk[1]).type = "header"
       /\ LET obj == Loads(disk[2])
          IN  /\ obj.kind = "dict"
              /\ obj.type = "message" /\ obj.role = "system" /\ obj.status = "complete"
              /\ obj.content = expected[1].content

C14_Witness ==
    /\ root_dir /\ log_origin = "fresh"
    /\ opened = 2 /\ appended = 2
    /\ Len(disk) = 4
    /\ system_prompt # expected[1].content

\* ------------------------------------------------------------------ C15
\* a is a prefix of b
IsPrefix(a, b) ==
    /\ Len(a) <= Len(b)
    /\ a = SubSeq(b, 1, Len(a))

\* C15: no step removes or changes a record of the stream (the file, or the
\* in-memory records of one object); a call of append_message adds exactly one
\* record, at the end; resuming an existing log and reading messages write
\* nothing.
C15_RecordStreamIsAppendOnly ==
    [][/\ IsPrefix(disk, disk')
       /\ opened' = opened => IsPrefix(t_records, t_records')
       /\ appended' = appended + 1 =>
             IF root_dir
             THEN /\ Len(disk') = Len(disk) + 1
                  /\ Loads(disk'[Len(disk')]).kind = "dict"
                  /\ Loads(disk'[Len(disk')]).type = "message"
                  /\ t_records' = t_records
             ELSE /\ Len(t_records') = Len(t_records) + 1
                  /\ t_records'[Len(t_records')].type = "message"
                  /\ disk' = disk
       /\ (opened' = opened + 1 /\ root_dir /\ disk # <<>>) => disk' = disk
       /\ (opened' = opened /\ view' # view) => (disk' = disk /\ t_records' = t_records)
      ]_vars

C15_Witness ==
    /\ root_dir /\ log_origin = "found" /\ tr_pc = "open"
    /\ opened = 2 /\ appended = 2
    /\ view = t_messages
    /\ Len(disk) = 4

\* ------------------------------------------------------------------ C16
\* C16: the messages of a Transcript object (fresh in memory, fresh on disk,
\* resumed from any log, after any appends) are never empty and start with
\* a system message, and so does every list read from it.
C16_MessagesStartWithSystem ==
    tr_pc = "open" =>
       /\ t_messages # <<>>
       /\ t_messages[1].role = "system"
       /\ view # <<>> => view[1].role = "system"

C16_Witness ==
    /\ tr_pc = "open" /\ log_origin = "found"
    /\ LoadFromFile(disk) # <<>>
    /\ LoadFromFile(disk)[1].role = "user"
    /\ t_messages = <<Msg("system", system_prompt)>> \o LoadFromFile(disk)
    /\ appended = 1
    /\ view = t_messages

\* ------------------------------------------------------------------ C17
\* C17: resuming a log that was found never aborts, whatever its lines are,
\* and the messages are those of the well-formed message records of the file,
\* in file order (after the system message put in front when the first of
\* them is not one).
C17_ResumeSkipsMalformedLines ==
    (root_dir /\ log_origin = "found") =>
       /\ tr_pc = "open"
       /\ t_messages \in {LoadFromFile(disk),
                          <<Msg("system", system_prompt)>> \o LoadFromFile(disk)}

\* ------------------------------------------------------------------ C21
\* the leading system message of the list handed to apply, as a list
CtxSystem == IF ctx_in # <<>> /\ ctx_in[1].role = "system" THEN <<ctx_in[1]>> ELSE <<>>
\* the body of that list
CtxRest == IF CtxSystem # <<>> THEN Tail(ctx_in) ELSE ctx_in
\* the tail window of that list
CtxTail == LastK(CtxRest, Min(context.always_keep_last_n, Len(CtxRest)))
CtxTailOrNone == IF context.always_keep_last_n = 0 THEN <<>> ELSE CtxTail

\* C21: apply on a list whose token count is within the target returns the
\* list as it is, and apply on that result returns it again.
C21_InBudgetListIsReturnedUnchanged ==
    (ctx_pc # "ready" /\ CountMessages(ctx_in) <= Target(context)) =>
       /\ ctx_out = ctx_in
       /\ ctx_pc = "again" => ctx_again = ctx_in

C21_Witness ==
    /\ ctx_pc = "again"
    /\ CountMessages(ctx_in) <= Target(context)
    /\ Len(ctx_in) = 3
    /\ context.always_keep_last_n = 1
    /\ ctx_again = ctx_in

\* ------------------------------------------------------------------ C28
\* the list is over the target while system and tail fit
TrimmingNeededTailFits ==
    /\ ctx_pc # "ready"
    /\ CountMessages(ctx_in) > Target(context)
    /\ CountMessages(CtxSystem \o CtxTailOrNone) <= Target(context)

\* C28: in that case the result is within the target and is the system
\* message with the longest suffix of the body that holds the tail and fits:
\* one more message of the head, the one dropped last, would exceed the
\* target.
C28_DropsOldestFirstUntilFirstFit ==
    TrimmingNeededTailFits =>
       LET kept == Len(ctx_out) - Len(CtxSystem)
       IN  /\ CountMessages(ctx_out) <= Target(context)
           /\ ctx_out = CtxSystem \o SubSeq(CtxRest, Len(CtxRest) - kept + 1, Len(CtxRest))
           /\ kept >= Len(CtxTailOrNone)
           /\ kept < Len(CtxRest)
           /\ CountMessages(CtxSystem \o SubSeq(CtxRest, Len(CtxRest) - kept, Len(CtxRest)))
                > Target(context)

C28_Witness ==
    /\ TrimmingNeededTailFits
    /\ CtxSystem # <<>>
    /\ context.always_keep_last_n = 1
    /\ Len(ctx_in) = 4
    /\ Len(ctx_out) = 3

\* ------------------------------------------------------------------ C29
\* C29: when the tail window of the input holds a user message, the result
\* of apply holds the last user message of that window, at the place it has
\* in the window counted from the end.
C29_LastUserOfTailIsKept ==
    (ctx_pc # "ready" /\ AnyUser(CtxTailOrNone)) =>
       LET tail == CtxTailOrNone
           back == CHOOSE b \in 0..(Len(tail) - 1) :
                      /\ tail[Len(tail) - b].role = "user"
                      /\ \A c \in 0..(b - 1) : tail[Len(tail) - c].role # "user"
       IN  /\ Len(ctx_out) > back
           /\ ctx_out[Len(ctx_out) - back] = tail[Len(tail) - back]

\* ------------------------------------------------------------------ C30
\* C30: the result of apply is within the target or has at most one message
\* besides the system message; the leading system message is never removed,
\* and what is removed is removed oldest first.
C30_FinalGuardStopsAtSystemPlusOne ==
    ctx_pc # "ready" =>
       /\ \/ CountMessages(ctx_out) <= Target(context)
          \/ Len(ctx_out) <= Len(CtxSystem) + 1
       /\ SubSeq(ctx_out, 1, Len(CtxSystem)) = CtxSystem
       /\ IsSuffix(SubSeq(ctx_out, Len(CtxSystem) + 1, Len(ctx_out)), CtxRest)

C30_Witness ==
    /\ ctx_pc = "done"
    /\ CtxSystem # <<>>
    /\ Len(ctx_in) >= 4
    /\ context.always_keep_last_n = 2
    /\ Len(ctx_out) = 2
    /\ CountMessages(ctx_out) > Target(context)

\* ------------------------------------------------------------------ C22
\* evaluate has been called and has returned or raised
Evaluated == pp_pc \in {"returned", "raised"}

\* the pattern of a rule occurs somewhere in the model name (at its start,
\* for an anchored pattern)
OccursIn(regex, model) ==
    \E i \in 1..(Len(model) + 1), j \in 0..Len(model) :
       /\ SubSeq(model, i, j) = regex.lit
       /\ regex.anchored => i = 1

\* the rules of the policy whose pattern occurs in the model name
MatchingRules == {i \in 1..Len(pp_rules) : OccursIn(pp_rules[i].regex, pp_model)}
NoRuleMatches == MatchingRules = {}
FirstRule == pp_rules[CHOOSE i \in MatchingRules : \A j \in MatchingRules : i <= j]
\* the params of the first matching rule that raw_params holds
ListedPresent == FirstRule.params \cap DOMAIN pp_raw
\* raw_params without those
WithoutListed == [k \in (DOMAIN pp_raw) \ FirstRule.params |-> pp_raw[k]]

\* C22: what evaluate does is what the first rule whose pattern occurs in the
\* model name prescribes, whatever the rules after it are.
C22_FirstMatchingRuleDecides ==
    (Evaluated /\ ~NoRuleMatches) =>
       CASE FirstRule.action = "drop" ->
              pp_pc = "returned" /\ pp_result.effective = WithoutListed
         [] FirstRule.action = "reject" ->
              IF ListedPresent # {} THEN pp_pc = "raised"
              ELSE pp_pc = "returned" /\ pp_result.effective = pp_raw
         [] OTHER ->
              pp_pc = "returned" /\ pp_result.effective = pp_raw

C22_Witness ==
    /\ pp_pc = "returned"
    /\ Len(pp_rules) = 2
    /\ MatchingRules = {1, 2}
    /\ pp_model = <<"gpt", "nano", "x">>
    /\ pp_rules[1].action = "drop"
    /\ pp_rules[2].action = "reject"
    /\ pp_rules[2].params \cap DOMAIN pp_raw # {}
    /\ ListedPresent # {}

\* ------------------------------------------------------------------ C23
DropApplies == Evaluated /\ ~NoRuleMatches /\ FirstRule.action = "drop"

\* C23 as stated: a matching drop rule removes exactly the listed keys that
\* are present and emits exactly one warning, which enumerates exactly the
\* keys removed; with none present it removes nothing and emits no warning.
C23_DropWarningEnumeratesRemovedKeys ==
    DropApplies =>
       /\ pp_pc = "returned"
       /\ pp_result.effective = WithoutListed
       /\ IF ListedPresent = {} THEN pp_result.warnings = <<>>
          ELSE /\ Len(pp_result.warnings) = 1
               /\ pp_result.warnings[1].kind = "generated"
               /\ Elems(pp_result.warnings[1].keys) = ListedPresent

\* C23, amended: a matching drop rule removes exactly the listed keys that
\* are present and emits exactly one warning: the rule's message when it has
\* one, otherwise a generated text enumerating exactly the keys removed; with
\* none present it removes nothing and emits no warning.
C23_DropRemovesPresentKeysAndWarnsOnce ==
    DropApplies =>
       /\ pp_pc = "returned"
       /\ pp_result.effective = WithoutListed
       /\ IF ListedPresent = {} THEN pp_result.warnings = <<>>
          ELSE /\ Len(pp_result.warnings) = 1
               /\ IF FirstRule.message # NoMessage
                  THEN pp_result.warnings[1] = FirstRule.message
                  ELSE /\ pp_result.warnings[1].kind = "generated"
                       /\ Elems(pp_result.warnings[1].keys) = ListedPresent
                       /\ Len(pp_result.warnings[1].keys) = Cardinality(ListedPresent)

C23_Witness ==
    /\ DropApplies
    /\ FirstRule.message = NoMessage
    /\ ListedPresent = {"temperature"}
    /\ FirstRule.params = {"temperature", "top_p"}
    /\ DOMAIN pp_result.effective = {"foo"}
    /\ Len(pp_result.warnings) = 1

\* ------------------------------------------------------------------ C24
RejectApplies == Evaluated /\ ~NoRuleMatches /\ FirstRule.action = "reject"

\* C24: a matching reject rule makes evaluate raise, with the rule's message
\* as the text of the error, when a listed parameter is present; with none
\* present evaluate returns the parameters unchanged and no warning.
C24_RejectRaisesWithRuleMessage ==
    RejectApplies =>
       IF ListedPresent # {}
       THEN /\ pp_pc = "raised"
            /\ FirstRule.message # NoMessage => pp_result.error = FirstRule.message
       ELSE /\ pp_pc = "returned"
            /\ pp_result.effective = pp_raw
            /\ pp_result.warnings = <<>>

C24_Witness ==
    /\ RejectApplies
    /\ pp_pc = "raised"
    /\ pp_result.error = Custom("no temperature")
    /\ Len(pp_rules) = 2
    /\ pp_rules[2].message = Custom("any model")
    /\ MatchingRules = {1, 2}

\* ------------------------------------------------------------------ C25
\* C25: with no matching rule, or a first matching rule of action allow,
\* evaluate returns parameters equal to raw_params and no warning.
C25_AllowPassesEverythingThrough ==
    (Evaluated /\ (NoRuleMatches \/ FirstRule.action = "allow")) =>
       /\ pp_pc = "returned"
       /\ pp_result.effective = pp_raw
       /\ pp_result.warnings = <<>>

C25_Witness ==
    /\ Evaluated
    /\ ~NoRuleMatches
    /\ FirstRule.action = "allow"
    /\ FirstRule.params = {"temperature"}
    /\ DOMAIN pp_raw = {"foo", "temperature", "top_p"}
    /\ Len(pp_rules) = 2
    /\ pp_rules[2].action = "drop"
    /\ MatchingRules = {1, 2}

\* ------------------------------------------------------------------ C26
\* build_app has run
Booted == pp_pc \in {"built", "aborted"}

\* C26: when the policy rejects a parameter, build_app raises a
\* ProviderClientError, which is no transient error and which
\* ResilientProvider does not retry, and has constructed neither the adapter
\* nor the ResilientProvider nor the Transcript.
C26_PolicyRejectAbortsBootstrap ==
    (Booted /\ pp_exists /\ ~NoRuleMatches /\ FirstRule.action = "reject"
       /\ ListedPresent # {}) =>
       /\ pp_pc = "aborted"
       /\ built = {}
       /\ boot_error.cls = "ProviderClientError"
       /\ "ProviderTransientError" \notin Ancestors(boot_error.cls)
       /\ ~ShouldRetry(boot_error)

C26_Witness ==
    /\ pp_pc = "aborted"
    /\ built = {}
    /\ FirstRule.action = "reject"
    /\ pp_model = <<"o", "gpt", "nano">>

\* ------------------------------------------------------------------ C27
\* C27: every access to the session registry, lookup or insertion, is made by
\* a request that holds the registry lock at that moment.
C27_RegistryAccessedUnderLock == \A a \in accesses : a.locked

\* ------------------------------------------------------------------ C39
\* C39: apply on the list apply returned returns that list again, whether the
\* list is within the target or not.
C39_ApplyIsIdempotent == ctx_pc = "again" => ctx_again = ctx_out

C39_Witness ==
    /\ ctx_pc = "again"
    /\ ctx_again = ctx_out
    /\ CountMessages(ctx_out) > Target(context)
    /\ Len(ctx_out) = 2
    /\ Len(ctx_in) = 4
    /\ ctx_out[1].role = "system"
    /\ context.always_keep_last_n = 2

\* ------------------------------------------------------------------ C34
\* C34: the list a turn hands to the provider ends with the user message the
\* turn has just appended, under every context policy.
C34_OutgoingEndsWithNewUserMessage ==
    TurnInFlight =>
       /\ outgoing # <<>>
       /\ outgoing[Len(outgoing)] = Msg("user", submitted[turns])

\* ------------------------------------------------------------------ C38
\* role and content of the message records of a record stream, in order
MessagesOf(records) ==
    LET recs == SelectSeq(records, LAMBDA r : r.type = "message")
    IN  [i \in 1..Len(recs) |-> Msg(recs[i].role, recs[i].content)]

\* the contents of the user messages of a message list, in order
UserTextsOf(msgs) ==
    LET users == SelectSeq(msgs, LAMBDA m : m.role = "user")
    IN  [i \in 1..Len(users) |-> users[i].content]

\* C38: whatever apply leaves out of the list handed to the provider, the
\* messages of the transcript are all the messages ever appended, in order:
\* they are the messages of the record stream, they hold the user message of
\* every turn, and no step removes or changes one of them.
C38_TrimmingLeavesTranscriptWhole ==
    /\ [](t_messages = MessagesOf(Records))
    /\ [](UserTextsOf(t_messages) = submitted)
    /\ [][IsPrefix(t_messages, t_messages')]_vars

C38_Witness ==
    /\ context # NoContext
    /\ turns = 2
    /\ Len(t_messages) = 5
    /\ Len(outgoing) < 4
    /\ t_messages[5].role = "assistant"

\* ------------------------------------------------------------------ C31
\* a backoff sleep is begun: _sleep_backoff has called time.sleep
SleepBegins == pc = "backoff" /\ pc' # "backoff"

\* C31: every backoff sleep lasts min(max_delay, base_delay * 2^attempt +
\* jitter) for a jitter of 0 or more, attempt being the zero-based index of
\* the attempt that just failed; when the failure carries a retry-after value
\* that reads as a number, the sleep lasts that value, taken as 0 when it is
\* negative, capped at max_delay, whatever the computed backoff is.  No sleep
\* is negative or longer than max_delay.
C31_BackoffDelayFormula ==
    [][SleepBegins =>
         LET hint == RetryAfterSeconds(lastExc)
         IN  /\ attempt = calls - 1
             /\ attempt = fails - 1
             /\ IF hint.ok
                THEN lastSleep' = Min(Max(hint.val, 0), policy.max_delay)
                ELSE \E jitter \in 0..JitterTicks :
                        lastSleep' = Min(policy.max_delay,
                                         policy.base_delay * Pow2(attempt) + jitter)
             /\ hint.ok /\ hint.val >= 0 => lastSleep' = Min(hint.val, policy.max_delay)
             /\ lastSleep' >= 0
             /\ lastSleep' <= policy.max_delay]_vars

C31_Witness ==
    /\ sleeps = 2
    /\ lastSleep = policy.max_delay
    /\ lastExc.retry_after = ""
    /\ policy.base_delay = 1
    /\ attempt = 2
    /\ fails = 2

\* ------------------------------------------------------------------ C35
\* C35: when every inner call and every sleep returns and a stream is read to
\* its end, a chat call or a stream that has been started comes to an end, in
\* success or in a terminal error; it makes at most max_retries + 1 inner
\* invocations and at most max_retries sleeps, and none once it is over.
C35_CallsTerminate ==
    /\ [](calls <= policy.max_retries + 1 /\ sleeps <= policy.max_retries)
    /\ [][TurnOver => (calls' = calls /\ sleeps' = sleeps)]_vars
    /\ (TurnInFlight ~> TurnOver)

C35_Witness ==
    /\ TurnOver
    /\ mode = "stream"
    /\ outcome = "ok"
    /\ calls = policy.max_retries + 1
    /\ sleeps = policy.max_retries
    /\ policy.max_retries = MaxRetriesBound
    /\ Len(delivered) = MaxChunks

\* ------------------------------------------------------------------ C33
\* C33: what the consumer of one chat_stream call has received is, in order,
\* a prefix of the chunks of the inner stream started last, and all of them
\* when the call succeeds; a chunk received is never taken back, so no chunk
\* of an earlier attempt is among them and none is received twice.
C33_ChunksComeFromOneInnerStream ==
    /\ [](mode = "stream" =>
            /\ IsPrefix(delivered, produced)
            /\ Len(delivered) <= innerChunks
            /\ (TurnOver /\ outcome = "ok") => delivered = produced)
    /\ [][mode = "stream" /\ mode' = "stream" => IsPrefix(delivered, delivered')]_vars

C33_Witness ==
    /\ mode = "stream"
    /\ TurnOver
    /\ outcome = "ok"
    /\ calls = 2
    /\ delivered = <<"b", "a">>
    /\ produced = delivered

\* ------------------------------------------------------------------ C32
\* the messages of the well-formed message records of the log, in file order
Replayed == LoadFromFile(disk)

\* C32: resuming a log that was found and whose replayed messages are none or
\* do not start with a system message does not fail, and the messages are a
\* system message of the prompt given followed by the replayed messages in
\* their order.
C32_ResumeSynthesizesSystemMessage ==
    (/\ root_dir
     /\ log_origin = "found"
     /\ Replayed = <<>> \/ Replayed[1].role # "system")
    => /\ tr_pc = "open"
       /\ t_messages = <<Msg("system", system_prompt)>> \o Replayed

\* ------------------------------------------------------------------ C36
\* C36: every assistant message of the transcript comes right after the user
\* message of the turn it is of, in whatever order the caller starts turns
\* and reads or closes the generators of its streaming turns.
C36_AssistantFollowsItsUserMessage ==
    \A i \in 1..Len(t_messages) :
       t_messages[i].role = "assistant" =>
          /\ i > 1
          /\ t_messages[i - 1].role = "user"
          /\ msg_turn[i - 1] = msg_turn[i]

\* ------------------------------------------------------------------ C37
\* C37: the sessions created by two requests have different session ids,
\* however close in time they are created, so that a registry entry is the
\* session of one request only.
C37_CreatedSessionsHaveDistinctIds ==
    \A t1, t2 \in DOMAIN reqs :
       (t1 # t2 /\ reqs[t1].new_id # NoId /\ reqs[t2].new_id # NoId)
          => reqs[t1].new_id # reqs[t2].new_id

\* ------------------------------------------------------------------ C40
\* the keys of raw_params that the params handed to the adapter do not have
MissingKeys == (DOMAIN pp_raw) \ (DOMAIN adapter_params)

\* C40: evaluate leaves the raw_params it is given as they are; the
\* effective parameters it returns are raw_params restricted to some of its
\* keys, with the same values; and build_app reports in one policy_drop
\* notice exactly the raw_params that are not among the effective ones, and
\* no notice when there are none.
C40_EffectiveParamsAreSubMapOfRaw ==
    /\ [][pp_raw' = pp_raw]_vars
    /\ [](pp_pc = "returned" =>
            /\ DOMAIN pp_result.effective \subseteq DOMAIN pp_raw
            /\ \A k \in DOMAIN pp_result.effective : pp_result.effective[k] = pp_raw[k])
    /\ [](pp_pc = "built" =>
            /\ DOMAIN adapter_params \subseteq DOMAIN pp_raw
            /\ \A k \in DOMAIN adapter_params : adapter_params[k] = pp_raw[k]
            /\ IF MissingKeys = {} THEN boot_warnings = <<>>
               ELSE /\ Len(boot_warnings) = 1
                    /\ boot_warnings[1].type = "policy_drop"
                    /\ DOMAIN boot_warnings[1].dropped = MissingKeys
                    /\ \A k \in MissingKeys : boot_warnings[1].dropped[k] = pp_raw[k])

C40_Witness ==
    /\ pp_pc = "built"
    /\ DOMAIN pp_raw = {"foo", "temperature", "top_p"}
    /\ DOMAIN adapter_params = {"foo"}
    /\ Len(boot_warnings) = 1
    /\ DOMAIN boot_warnings[1].dropped = {"temperature", "top_p"}
    /\ pp_result.warnings = <<Custom("nano: defaults only")>>
====
